---- MODULE Spec2Model ----
(***************************************************************************)
(* PIPSIM automation: topology builder, case matrix, result reshaping,     *)
(* result summary and parameter export/import, modelled from the sources  *)
(* under src/app/core and src/core.                                        *)
(***************************************************************************)
EXTENDS Integers, Sequences, FiniteSets, TLC

VARIABLES
    \* ---- ModelBuilder (src/app/core/model_builder.py)
    mb_pc,            \* "created" after __init__, "sections" after create_section_components
    component_name,   \* the component sheet: a sequence of rows, one cell kind per section
    junctioned,       \* per section: the table insert_junctions returned for it
    section_list,     \* ModelBuilder.section_list
    add_error,        \* what model.add raises for a component without a type
    mb_model,         \* self.model: the engine session and what has been added to it
    mb_calls,         \* the calls build_section has made on the engine, in order
    mb_log,           \* what the builder has logged, in order
    \* ---- MultiCaseModeller (src/app/core/multi_case_modeller.py)
    mc_pc,            \* position of the constructor / build_all_models / build_model
    xl_profile,       \* the sink-profile sheet: header row and flow cells
    xl_conditions,    \* the Conditions column of the conditions sheet, row by row
    sink_profile,     \* self.sink_profile
    conditions,       \* self.conditions (its Conditions column)
    base_model,       \* the model file at base_model_path
    model,            \* self.model: the engine session
    cases,            \* the list `self.cases` evaluated by build_all_models
    cases_todo,       \* what the loop of build_all_models has still to visit
    current,          \* (case, condition) of the running build_model
    saved_models,     \* model files written by save_as_new_model
    engine_log,       \* the calls made on the engine session of the running build_model
    \* ---- result reshaping (src/app/core/network_simulation.py, src/core/network_simulation.py)
    rs_pc,            \* "ran" after the engine run, then "node_done", "profile_done"
    rs_impl,          \* which class runs: "app" (NetworkSimulator) or "legacy" (NetworkSimulation)
    results_node,     \* self.results.node: the node rows in the engine's order
    boundary_conditions, \* row BoundaryNodeType of self.boundary_conditions, per node
    results_profile,  \* self.results.profile: per branch the BranchEquipment column
    node_results,     \* self.node_results
    profile_results,  \* self.profile_results
    \* ---- summaries (src/app/core/network_simulation_summary.py, src/core/network_simulation_summary.py)
    sm_pc,            \* "loaded", "summarised", "points_done", "written" or "raised"
    sm_impl,          \* which NetworkSimulationSummary runs: "app" or "legacy"
    idx_all_nan,      \* what idxmin/idxmax of the installed pandas do on a column without a number
    sheet_df,         \* the result sheet of one case, as read by pd.read_excel
    summary_rows,     \* the rows the min/max extraction returns for the sheet
    profile_sheets,   \* self.profile_sheets: the sheet names of the profile workbook
    profile_xl,       \* the profile workbook: the table of every sheet
    pump_operating_points, \* self.pump_operating_points
    sm_error,         \* the exception that left the summary, if any
    sm_written,       \* whether the "Pump Operating Points" sheet has been written
    \* ---- export and bulk import (src/app/core/model_populater.py)
    pp_pc,            \* "opened", "exported" or "imported"
    engine_nan,       \* what the engine's set_values does with a NaN: "stores" or "rejects"
    pp_model,         \* the engine model: per component type, per component, per parameter
    pp_before,        \* the values of the model when it was opened for the export
    workbook,         \* the exported workbook: per sheet, per row, per column, a cell
    \* ---- running a model (src/app/core/network_simulation.py, src/core/network_simulation.py)
    rn_pc,            \* "idle", "constructed" (NetworkSimulator.__init__ returned) or "done"
    rn_impl,          \* which class ran: "app" (NetworkSimulator) or "legacy" (NetworkSimulation)
    rn_issues,        \* what networksimulation.validate() returns for the model file
    rn_fail,          \* the number of the step of the handler that raises, 0 when none does
    rn_calls,         \* the engine calls and result steps made, in order, each with its method
    rn_sinks,         \* the sinks of the model file: driving flow and IsActive
    rn_open,          \* whether the engine session is open
    rn_error,         \* the exception raised inside the handler, if any
    rn_raised,        \* whether the exception left the handler
    rn_logged,        \* the text logger.error was given for it
    \* ---- worker threads of the frames (src/app/frames)
    file_lock,        \* what Model.open does with a file another session has open
    threads,          \* the worker threads started by the submit buttons
    \* ---- constructing the summary (src/app/core/network_simulation_summary.py, src/core/network_simulation_summary.py)
    ct_pc,            \* "idle", "ready" (nothing constructed yet) or "done"
    ct_files,         \* the files that exist in the results folder
    ct_impl,          \* which NetworkSimulationSummary was constructed: "app" or "legacy"
    ct_args,          \* the two paths the constructor was given
    ct_self,          \* the attributes the constructor has assigned
    ct_error,         \* the exception that left the constructor, "None" when it returned
    \* ---- simple import (src/app/core/model_populater.py)
    si_pc,            \* "idle", "opened" (ModelPopulater.__init__ returned) or "imported"
    name_is_parameter,\* whether get_values of the engine lists "Name" among a component's parameters
    si_model,         \* the live model: per component type, per component name, its Length
    component_data,   \* self.component_data: the rows of the sheet (Name, Component, Length)
    si_calls,         \* the dictionaries model.set_values was given, in order
    si_log,           \* what the import has logged, in order
    \* ---- variant file names (src/core/network_simulation.py)
    fn_pc,            \* "idle", "prepared", "saved" (save_as_new_model returned) or "reopened"
    fn_case,          \* self.case of the object that builds the variant
    fn_condition,     \* the index label of its self.condition
    fn_saved,         \* the file name save_as_new_model gave the variant
    fn_extracted,     \* what prepare_model of the object that reopens the variant took from the file name
    fn_error,         \* the exception that left that prepare_model, "None" when it returned
    \* ---- results workbooks (src/app/core/network_simulation.py, src/core/excel_handling.py)
    rw_pc,            \* "idle" or "open" (the results folder is there)
    rw_node,          \* the node results workbook: per sheet name, the model file whose results it holds
    rw_profile,       \* the profile results workbook, likewise
    rw_runs           \* the runs made into the folder, in order: the model file and whether it had results

mbVars == <<mb_pc, component_name, junctioned, section_list, add_error, mb_model,
            mb_calls, mb_log>>

mcVars == <<mc_pc, xl_profile, xl_conditions, sink_profile, conditions, base_model,
            model, cases, cases_todo, current, saved_models, engine_log>>

rsVars == <<rs_pc, rs_impl, results_node, boundary_conditions, results_profile,
            node_results, profile_results>>

smVars == <<sm_pc, sm_impl, idx_all_nan, sheet_df, summary_rows, profile_sheets,
            profile_xl, pump_operating_points, sm_error, sm_written>>

ppVars == <<pp_pc, engine_nan, pp_model, pp_before, workbook>>

rnVars == <<rn_pc, rn_impl, rn_issues, rn_fail, rn_calls, rn_sinks, rn_open, rn_error,
            rn_raised, rn_logged>>

thVars == <<file_lock, threads>>

ctVars == <<ct_pc, ct_files, ct_impl, ct_args, ct_self, ct_error>>

siVars == <<si_pc, name_is_parameter, si_model, component_data, si_calls, si_log>>

fnVars == <<fn_pc, fn_case, fn_condition, fn_saved, fn_extracted, fn_error>>

rwVars == <<rw_pc, rw_node, rw_profile, rw_runs>>

vars == <<mbVars, mcVars, rsVars, smVars, ppVars, rnVars, thVars, ctVars, siVars, fnVars, rwVars>>

\* What an action of one workflow leaves alone: the state of the other workflows.
notMb == <<mcVars, rsVars, smVars, ppVars, rnVars, thVars, ctVars, siVars, fnVars, rwVars>>

notMc == <<mbVars, rsVars, smVars, ppVars, rnVars, thVars, ctVars, siVars, fnVars, rwVars>>

notRs == <<mbVars, mcVars, smVars, ppVars, rnVars, thVars, ctVars, siVars, fnVars, rwVars>>

notSm == <<mbVars, mcVars, rsVars, ppVars, rnVars, thVars, ctVars, siVars, fnVars, rwVars>>

notPp == <<mbVars, mcVars, rsVars, smVars, rnVars, thVars, ctVars, siVars, fnVars, rwVars>>

notRn == <<mbVars, mcVars, rsVars, smVars, ppVars, thVars, ctVars, siVars, fnVars, rwVars>>

notTh == <<mbVars, mcVars, rsVars, smVars, ppVars, rnVars, ctVars, siVars, fnVars, rwVars>>

notCt == <<mbVars, mcVars, rsVars, smVars, ppVars, rnVars, thVars, siVars, fnVars, rwVars>>

notSi == <<mbVars, mcVars, rsVars, smVars, ppVars, rnVars, thVars, ctVars, fnVars, rwVars>>

notFn == <<mbVars, mcVars, rsVars, smVars, ppVars, rnVars, thVars, ctVars, siVars, rwVars>>

notRw == <<mbVars, mcVars, rsVars, smVars, ppVars, rnVars, thVars, ctVars, siVars, fnVars>>

(***************************************************************************)
(* Generic helpers                                                         *)
(***************************************************************************)
Range(s) == {s[i] : i \in 1..Len(s)}

SeqsUpTo(S, n) == UNION {[1..k -> S] : k \in 0..n}

(***************************************************************************)
(* ModelBuilder                                                            *)
(***************************************************************************)
\* Rows of the component sheet that one table may hold.
MaxRows == 3

\* Column pairs (sections) of the component sheet; the pair i starts at column 2*i.
Sections == {0, 1}

\* What a (name, type) cell pair of one row can hold.
CellKinds == {"Blank", "Flowline", "Source", "NoType"}

NoRow == [index |-> -1, name |-> [syn |-> FALSE, sec |-> -1, n |-> -1], type |-> "None"]

\* The (name, type) pair of sheet row `label` (0-based) for section `sec`.
Cell(kind, sec, label) ==
    [index |-> label,
     name  |-> [syn |-> FALSE, sec |-> sec, n |-> label],
     type  |-> IF kind = "NoType" THEN "None" ELSE kind]

\* self.component_name[adjacent_columns].dropna(axis=0, how="all"):
\* the rows of the pair that are not blank, each keeping its index label.
RECURSIVE DropBlankFrom(_, _, _)
DropBlankFrom(table, sec, k) ==
    IF k > Len(table) THEN <<>>
    ELSE IF table[k][sec] = "Blank" THEN DropBlankFrom(table, sec, k + 1)
    ELSE <<Cell(table[k][sec], sec, k - 1)>> \o DropBlankFrom(table, sec, k + 1)

DropBlankRows(table, sec) == DropBlankFrom(table, sec, 1)

\* The synthetic row {loop_column: f"LJ({section_number}_{j_counter})", type_column: "Junction"}.
LJ(section_number, j_counter) ==
    [name |-> [syn |-> TRUE, sec |-> section_number, n |-> j_counter], type |-> "Junction"]

\* row.to_dict(): the row without its index label.
ToDict(row) == [name |-> row.name, type |-> row.type]

\* `index == 0 and row[type_column] == "Flowline"`: index is the row's label.
IsFirstFlowline(index, row) == index = 0 /\ row.type = "Flowline"

NeverBetween(previous_row, row) == FALSE

AfterAnyFlowline(previous_row, row) ==
    previous_row # NoRow /\ previous_row.type = "Flowline"

\* `previous_row is not None and previous_row[type] == "Flowline" and row[type] == "Flowline"`.
IsConsecutiveFlowlines(previous_row, row) ==
    /\ previous_row # NoRow
    /\ previous_row.type = "Flowline"
    /\ row.type = "Flowline"

\* The body of `for index, row in df.iterrows()`, from row k on.
RECURSIVE InsertLoop(_, _, _, _, _, _)
InsertLoop(df, section_number, k, j_counter, previous_row, new_rows) ==
    IF k > Len(df) THEN [new_rows |-> new_rows, j_counter |-> j_counter]
    ELSE
        LET row   == df[k]
            first == IsFirstFlowline(row.index, row)
            rows1 == IF first THEN Append(new_rows, LJ(section_number, j_counter))
                     ELSE new_rows
            j1    == IF first THEN j_counter + 1 ELSE j_counter
            betw  == IsConsecutiveFlowlines(previous_row, row)
            rows2 == IF betw THEN Append(rows1, LJ(section_number, j1)) ELSE rows1
            j2    == IF betw THEN j1 + 1 ELSE j1
        IN  InsertLoop(df, section_number, k + 1, j2, row, Append(rows2, ToDict(row)))

insert_junctions(df, section_number) ==
    IF df = <<>> THEN <<>>
    ELSE
        LET r == InsertLoop(df, section_number, 1, 1, NoRow, <<>>)
        IN  IF df[Len(df)].type = "Flowline"
            THEN Append(r.new_rows, LJ(section_number, r.j_counter))
            ELSE r.new_rows

\* The sections in column order, as a sequence.
SectionOrder == <<0, 1>>

\* section_list: the non-empty component lists, in column order.
RECURSIVE SectionListFrom(_, _)
SectionListFrom(tables, k) ==
    IF k > Len(SectionOrder) THEN <<>>
    ELSE
        LET component_list == tables[SectionOrder[k]]
        IN  IF component_list # <<>>
            THEN <<component_list>> \o SectionListFrom(tables, k + 1)
            ELSE SectionListFrom(tables, k + 1)

NoName == [syn |-> FALSE, sec |-> -1, n |-> -1]

\* The state build_section works on: the engine's components and connections, the
\* calls made and the messages logged.
NoBuild == [components |-> {}, connections |-> {}, calls |-> <<>>, log |-> <<>>]

Logged(st, level, text) ==
    [st EXCEPT !.log = Append(@, [level |-> level, text |-> text])]

Called(st, op, a, b) ==
    [st EXCEPT !.calls = Append(@, [op |-> op, a |-> a, b |-> b])]

\* add_components: model.add(component, name); a ValueError is logged as a warning.
\* The engine adds a component that has a type and raises for one that has none; an
\* exception other than ValueError leaves add_components.
add_components(st, component) ==
    LET st1 == Called(st, "add", component.name, NoName)
    IN  IF component.type = "None"
        THEN IF add_error = "ValueError"
             THEN [st |-> Logged(st1, "warning", "already exists"), raised |-> FALSE]
             ELSE [st |-> st1, raised |-> TRUE]
        ELSE IF component.name \in st1.components
             THEN [st |-> Logged(st1, "warning", "already exists"), raised |-> FALSE]
             ELSE [st |-> [st1 EXCEPT !.components = @ \cup {component.name}],
                   raised |-> FALSE]

\* connect_nodes: both endpoints are looked up with model.find; ValueError("Node not
\* found") unless both are there, else model.connect.
connect_nodes(st, node1, node2) ==
    LET st1 == Called(Called(st, "find", node1.name, NoName), "find", node2.name, NoName)
    IN  IF node1.name \notin st1.components \/ node2.name \notin st1.components
        THEN [st |-> st1, raised |-> TRUE]
        ELSE [st |-> [Called(st1, "connect", node1.name, node2.name)
                         EXCEPT !.connections = @ \cup {<<node1.name, node2.name>>}],
              raised |-> FALSE]

\* build_section: `for i, component in enumerate(components)`, from position i on.
\* The try block holds add_components and connect_nodes of one component; the
\* except block logs the error and the loop goes on with the next component.
RECURSIVE BuildFrom(_, _, _)
BuildFrom(components, i, st) ==
    IF i > Len(components) THEN st
    ELSE
        LET added == add_components(st, components[i])
            done  == IF added.raised \/ i = 1
                     THEN added
                     ELSE connect_nodes(added.st, components[i - 1], components[i])
        IN  BuildFrom(components, i + 1,
                      IF done.raised
                      THEN Logged(done.st, "error", "Error building section")
                      ELSE done.st)

build_section(st, components) == BuildFrom(components, 1, st)

\* create_model: `for idx, section in enumerate(self.section_list)`, from idx on.
RECURSIVE BuildSections(_, _, _)
BuildSections(sections, idx, st) ==
    IF idx > Len(sections) THEN st
    ELSE BuildSections(sections, idx + 1, build_section(st, sections[idx]))

\* An opened model file without a component.
EmptyModel == [open |-> TRUE, components |-> {}, connections |-> {}]

\* No component sheet is being built.
IdleBuilder ==
    /\ mb_pc = "idle"
    /\ component_name = <<>>
    /\ junctioned = <<>>
    /\ section_list = <<>>
    /\ add_error = "None"
    /\ mb_model = [EmptyModel EXCEPT !.open = FALSE]
    /\ mb_calls = <<>>
    /\ mb_log = <<>>

InitBuilder ==
    /\ mb_pc = "created"
    /\ component_name \in SeqsUpTo([Sections -> CellKinds], MaxRows)
    /\ junctioned = [s \in Sections |-> <<>>]
    /\ section_list = <<>>
    /\ add_error \in {"ValueError", "Exception"}
    /\ mb_model = EmptyModel
    /\ mb_calls = <<>>
    /\ mb_log = <<>>

create_section_components ==
    /\ mb_pc = "created"
    /\ LET tables == [s \in Sections |->
                        insert_junctions(DropBlankRows(component_name, s), s)]
       IN  /\ junctioned' = tables
           /\ section_list' = SectionListFrom(tables, 1)
    /\ mb_pc' = "sections"
    /\ mb_log' = Append(mb_log, [level |-> "info", text |-> "Section list created"])
    /\ UNCHANGED <<component_name, add_error, mb_model, mb_calls, notMb>>

\* create_model, after its call of create_section_components: every section is
\* built, then "Pipsim model created" is logged.
create_model ==
    /\ mb_pc = "sections"
    /\ LET st == BuildSections(section_list, 1,
                               [NoBuild EXCEPT !.components = mb_model.components,
                                               !.connections = mb_model.connections])
       IN  /\ mb_model' = [mb_model EXCEPT !.components = st.components,
                                           !.connections = st.connections]
           /\ mb_calls' = st.calls
           /\ mb_log' = mb_log \o st.log
                            \o <<[level |-> "info", text |-> "Pipsim model created"]>>
    /\ mb_pc' = "built"
    /\ UNCHANGED <<component_name, junctioned, section_list, add_error, notMb>>

\* main (mode "Scratch"), after its call of create_model: save(), close() and the
\* log line "Pipsim model created"; main returns None.
main ==
    /\ mb_pc = "built"
    /\ mb_model' = [mb_model EXCEPT !.open = FALSE]
    /\ mb_log' = Append(mb_log, [level |-> "info", text |-> "Pipsim model created"])
    /\ mb_pc' = "saved"
    /\ UNCHANGED <<component_name, junctioned, section_list, add_error, mb_calls, notMb>>

NextBuilder ==
    \/ create_section_components
    \/ create_model
    \/ main

\* C1: in the table insert_junctions returns for a section, a synthetic Junction row
\* lies between every two Flowline rows that were adjacent in the table passed to
\* it, and the synthetic names LJ(<section>_<n>) of the section carry that section
\* number and appear with n strictly increasing (hence pairwise distinct).
C1_JunctionBetweenAdjacentFlowlines ==
    mb_pc = "sections" =>
        \A s \in Sections :
            LET df  == DropBlankRows(component_name, s)
                out == junctioned[s]
            IN  /\ \A k \in 1..(Len(df) - 1) :
                        (df[k].type = "Flowline" /\ df[k + 1].type = "Flowline") =>
                            \E i, m, j \in 1..Len(out) :
                                /\ i < m /\ m < j
                                /\ out[i].name = df[k].name
                                /\ out[j].name = df[k + 1].name
                                /\ out[m].name.syn
                                /\ out[m].type = "Junction"
                /\ \A i, j \in 1..Len(out) :
                        (i < j /\ out[i].name.syn /\ out[j].name.syn) =>
                            /\ out[i].name.sec = s
                            /\ out[j].name.sec = s
                            /\ out[i].name.n < out[j].name.n

\* C1 witness: a built section whose input held two adjacent Flowline rows and whose
\* output holds at least two synthetic junctions.
C1_Witness ==
    /\ mb_pc = "sections"
    /\ \E s \in Sections :
        LET df  == DropBlankRows(component_name, s)
            out == junctioned[s]
        IN  /\ \E k \in 1..(Len(df) - 1) :
                    df[k].type = "Flowline" /\ df[k + 1].type = "Flowline"
            /\ Cardinality({i \in 1..Len(out) : out[i].name.syn}) >= 2

\* C2: every section built by create_section_components (blank rows dropped, then
\* insert_junctions applied) neither begins nor ends with a Flowline: a synthetic
\* Junction precedes a leading Flowline and follows a trailing one.
C2_NoSectionBeginsOrEndsWithFlowline ==
    mb_pc = "sections" =>
        \A s \in Sections :
            LET out == junctioned[s]
            IN  out # <<>> =>
                    /\ out[1].type # "Flowline"
                    /\ out[Len(out)].type # "Flowline"

\* A row of the input table, not a synthetic junction.
IsInputRow(row) == ~row.name.syn

\* C29: removing the synthetic LJ rows from the table insert_junctions returns gives
\* back the rows passed to it, in their order, and a synthetic junction that has a
\* row on either side lies between two Flowline rows.
C29_OnlyJunctionsAreAdded ==
    mb_pc = "sections" =>
        \A s \in Sections :
            LET df  == DropBlankRows(component_name, s)
                out == junctioned[s]
            IN  /\ SelectSeq(out, IsInputRow) = [k \in 1..Len(df) |-> ToDict(df[k])]
                /\ \A m \in 2..(Len(out) - 1) :
                        out[m].name.syn =>
                            /\ out[m].type = "Junction"
                            /\ out[m - 1].type = "Flowline"
                            /\ out[m + 1].type = "Flowline"

\* C29 witness: a built section in which a Flowline row is followed by a row of
\* another type and a synthetic junction has been inserted elsewhere.
C29_Witness ==
    /\ mb_pc = "sections"
    /\ \E s \in Sections :
        LET out == junctioned[s]
        IN  /\ \E m \in 1..(Len(out) - 1) :
                    /\ out[m].type = "Flowline" /\ ~out[m + 1].name.syn
                    /\ out[m + 1].type # "Flowline"
            /\ \E m \in 1..Len(out) : out[m].name.syn

\* C17: among the calls create_model makes on the engine, every add of a
\* component of a section comes before the first connect of that section.
C17_ComponentsCreatedBeforeFirstConnect ==
    mb_pc \in {"built", "saved"} =>
        \A i, j \in 1..Len(mb_calls) :
            (/\ mb_calls[i].op = "connect"
             /\ mb_calls[j].op = "add"
             /\ mb_calls[j].a.sec = mb_calls[i].a.sec) => j < i

\* The sections in which a connect_nodes lookup found no node.
FailedSections ==
    {mb_calls[i].a.sec : i \in {k \in 1..Len(mb_calls) :
        mb_calls[k].op = "find" /\ mb_calls[k].a \notin mb_model.components}}

\* The position of the first lookup of the section that found no node.
FirstFailure(s) ==
    CHOOSE i \in 1..Len(mb_calls) :
        /\ mb_calls[i].op = "find" /\ mb_calls[i].a.sec = s
        /\ mb_calls[i].a \notin mb_model.components
        /\ \A k \in 1..(i - 1) :
              ~(mb_calls[k].op = "find" /\ mb_calls[k].a.sec = s
                /\ mb_calls[k].a \notin mb_model.components)

\* Every component of the section is in the model and every two neighbours are connected.
SectionBuilt(section) ==
    /\ \A k \in 1..Len(section) : section[k].name \in mb_model.components
    /\ \A k \in 1..(Len(section) - 1) :
          <<section[k].name, section[k + 1].name>> \in mb_model.connections

\* C18: when connect_nodes cannot find an endpoint, nothing more is added or
\* connected in that section, every section without such a failure is built in
\* full, and the last thing main reports is not the success message.
C18_UnresolvedEndpointStopsTheSection ==
    (mb_pc = "saved" /\ FailedSections # {}) =>
        /\ \A s \in FailedSections : \A i \in 1..Len(mb_calls) :
              (i > FirstFailure(s) /\ mb_calls[i].a.sec = s)
                  => mb_calls[i].op \notin {"add", "connect"}
        /\ \A k \in 1..Len(section_list) :
              section_list[k][1].name.sec \notin FailedSections
                  => SectionBuilt(section_list[k])
        /\ mb_log[Len(mb_log)].level # "info"

(***************************************************************************)
(* MultiCaseModeller                                                       *)
(***************************************************************************)
\* Case columns a profile sheet may hold.
MaxCases == 2

\* Rows a conditions sheet may hold.
MaxConditionRows == 2

\* Largest flow cell, in units of 0.001 (the unit MINIMUM_FLOWRATE is 1 of).
MaxFlow == 2

\* MINIMUM_FLOWRATE = 0.001, in units of 0.001.
MINIMUM_FLOWRATE == 1

\* Column names are strings, modelled as sequences of characters.
CaseNames == {<<"A">>, <<"A", "_", "1">>, <<"A", "-", "1">>}

\* Values of the Conditions column: strings, named here by their text.
ConditionLabels == {"X", "Y", "1_X"}

\* The characters of a condition label.
Chars(label) ==
    IF label = "1_X" THEN <<"1", "_", "X">>
    ELSE IF label = "X" THEN <<"X">>
    ELSE IF label = "Y" THEN <<"Y">>
    ELSE <<"N", "o", "n", "e">>

Sinks == {"S1", "S2"}

NoCase == <<<<>>, "None">>

\* Path(self.model.filename).name of the base model, and its path.
BaseName == <<"m">>

BaseModelPath == <<"/">> \o BaseName

\* save_as_new_model: folder_path / f"{case}_{condition}_{Path(self.model.filename).name}"
FileName(case, condition) == case \o <<"_">> \o Chars(condition) \o <<"_">> \o BaseName

NewFile(case, condition) == <<"M", "o", "d", "e", "l", "s", "/">> \o FileName(case, condition)

ClosedModel == [open |-> FALSE, sinks |-> <<>>, settings |-> <<>>]

\* Parameters.SimulationSetting.__name__
SimulationSetting == "SimulationSetting"

\* A row of the conditions sheet that sets a parameter of sink S1.
SinkRow(label) ==
    [Conditions |-> label, ComponentName |-> "S1", ComponentType |-> "Sink",
     Parameter |-> "Pressure", Value |-> 7]

\* A row of the conditions sheet that sets a simulation setting.
SettingRow(label) ==
    [Conditions |-> label, ComponentName |-> "None", ComponentType |-> SimulationSetting,
     Parameter |-> "AmbientTemperature", Value |-> 7]

\* A column name left as the sheet has it.
KeepUnderscores(col) == col

\* str.replace("_", "-") on one column name.
ReplaceUnderscores(col) == [i \in 1..Len(col) |-> IF col[i] = "_" THEN "-" ELSE col[i]]

HasUnderscore(col) == \E i \in 1..Len(col) : col[i] = "_"

\* `if any("_" in str(col) ...): data.columns = data.columns.str.replace("_", "-")`.
RewriteColumns(header) ==
    IF \E i \in 1..Len(header) : HasUnderscore(header[i])
    THEN [i \in 1..Len(header) |-> ReplaceUnderscores(header[i])]
    ELSE header

\* dropna(subset=[key_column]) keeps the rows that have a condition label.
HasLabel(row) == row.Conditions # "None"

\* _fetch_excel_data(sink_profile_sheet, "Sinks"): the sinks become the index, the
\* other columns the case columns.
FetchSinkProfile(xl) ==
    [columns |-> RewriteColumns(xl.header), index |-> DOMAIN xl.flows, flows |-> xl.flows]

\* _fetch_excel_data(condition_sheet, "Conditions"): rows without a label are dropped.
FetchConditions(rows) == SelectSeq(rows, HasLabel)

\* Series.unique(): the distinct values in order of first appearance.
RECURSIVE Unique(_)
Unique(s) ==
    IF s = <<>> THEN <<>>
    ELSE LET init == Unique(SubSeq(s, 1, Len(s) - 1))
             last == s[Len(s)]
         IN  IF last \in Range(init) THEN init ELSE Append(init, last)

\* itertools.product(a, b) as a list: a is the outer loop.
Product(a, b) ==
    [k \in 1..(Len(a) * Len(b)) |->
        <<a[((k - 1) \div Len(b)) + 1], b[((k - 1) % Len(b)) + 1]>>]

\* self.conditions[ConditionColumns.CONDITIONS]
LabelColumn(conds) == [k \in 1..Len(conds) |-> conds[k].Conditions]

\* The property MultiCaseModeller.cases.
Cases(profile, conds) == Product(profile.columns, Unique(LabelColumn(conds)))

\* self.conditions.loc[self.conditions["Conditions"] == condition]
RECURSIVE RowsOf(_, _)
RowsOf(conds, condition) ==
    IF conds = <<>> THEN <<>>
    ELSE IF Head(conds).Conditions = condition
         THEN <<Head(conds)>> \o RowsOf(Tail(conds), condition)
         ELSE RowsOf(Tail(conds), condition)

\* The loop of set_simulation_settings: setattr(self.model.sim_settings, attr, value)
\* for every row of the simulation-settings pseudo-type.
RECURSIVE ApplySettings(_, _)
ApplySettings(settings, rows) ==
    IF rows = <<>> THEN settings
    ELSE IF Head(rows).ComponentType = SimulationSetting
         THEN ApplySettings([settings EXCEPT ![Head(rows).Parameter] = Head(rows).Value],
                            Tail(rows))
         ELSE ApplySettings(settings, Tail(rows))

\* The engine calls of that loop: one attribute assignment per settings row.
SettingCalls(rows) ==
    LET IsSetting(row) == row.ComponentType = SimulationSetting
        setting_rows == SelectSeq(rows, IsSetting)
    IN  [k \in 1..Len(setting_rows) |->
            [op |-> "setattr", attr |-> setting_rows[k].Parameter]]

\* The loop of set_parameters_dict: rows with a component name and a parameter, grouped
\* by component name.
RECURSIVE ParametersDict(_, _)
ParametersDict(result, rows) ==
    IF rows = <<>> THEN result
    ELSE LET r == Head(rows)
         IN  IF r.ComponentName # "None" /\ r.Parameter # "None"
             THEN ParametersDict(
                    [c \in DOMAIN result \cup {r.ComponentName} |->
                        IF c = r.ComponentName
                        THEN [p \in (IF c \in DOMAIN result THEN DOMAIN result[c] ELSE {})
                                     \cup {r.Parameter} |->
                                IF p = r.Parameter THEN r.Value ELSE result[c][p]]
                        ELSE result[c]],
                    Tail(rows))
             ELSE ParametersDict(result, Tail(rows))

\* model.set_values(dict=d): every named parameter of every named component is set.
SetValues(components, d) ==
    [c \in DOMAIN components |->
        IF c \in DOMAIN d
        THEN [p \in DOMAIN components[c] |->
                IF p \in DOMAIN d[c] THEN d[c][p] ELSE components[c][p]]
        ELSE components[c]]

AtLeastMinimum(flow) == flow >= MINIMUM_FLOWRATE

\* `sink_data[parameter] > self.MINIMUM_FLOWRATE`.
AboveMinimum(flow) == flow > MINIMUM_FLOWRATE

\* The positions of the columns that `self.sink_profile.loc[:, [case]]` selects.
ColumnsNamed(profile, case) == {i \in 1..Len(profile.columns) : profile.columns[i] = case}

\* set_sink_data raises: PipsimModellingError when the sinks of the sheet and of the
\* model differ, ValueError when `sink_data.columns = [parameter]` renames more than
\* one selected column.
SinkDataRaises(profile, m, case) ==
    \/ profile.index # DOMAIN m.sinks
    \/ Cardinality(ColumnsNamed(profile, case)) # 1

\* sink_data.to_dict("index"): per sink the flow, IsActive and the flow-rate type.
SinkDataDict(profile, case) ==
    LET col == CHOOSE i \in ColumnsNamed(profile, case) : TRUE
    IN  [s \in profile.index |->
            [LiquidFlowRate |-> profile.flows[s][col],
             IsActive       |-> AboveMinimum(profile.flows[s][col]),
             FlowRateType   |-> "LiquidFlowRate"]]

\* Flow cells of a sheet with n case columns.
FlowTables(n) == [Sinks -> [1..n -> 0..MaxFlow]]

\* Header rows of the profile sheet: distinct column names.
Headers ==
    {h \in SeqsUpTo(CaseNames, MaxCases) :
        Len(h) >= 1 /\ \A i, j \in 1..Len(h) : i # j => h[i] # h[j]}

\* The model files the base model path may name: which sinks it holds, and which are active.
BaseModels ==
    {[open |-> FALSE, sinks |-> v, settings |-> [AmbientTemperature |-> 0]] :
        v \in UNION {[S -> [LiquidFlowRate : {0}, IsActive : BOOLEAN,
                            FlowRateType : {"LiquidFlowRate"}, Pressure : {0}]] :
                        S \in {Sinks, {"S1"}}}}

\* No multi-case workflow is running.
IdleMultiCase ==
    /\ mc_pc = "idle"
    /\ xl_profile = <<>>
    /\ xl_conditions = <<>>
    /\ sink_profile = <<>>
    /\ conditions = <<>>
    /\ base_model = ClosedModel
    /\ model = ClosedModel
    /\ cases = <<>>
    /\ cases_todo = <<>>
    /\ current = NoCase
    /\ saved_models = {}
    /\ engine_log = <<>>

InitMultiCaseIdle ==
    /\ mc_pc = "new"
    /\ sink_profile = [columns |-> <<>>, index |-> {}, flows |-> <<>>]
    /\ conditions = <<>>
    /\ model = ClosedModel
    /\ cases = <<>>
    /\ cases_todo = <<>>
    /\ current = NoCase
    /\ saved_models = {}
    /\ engine_log = <<>>

\* The case matrix: any header row and any Conditions column, over one fixed model.
InitCases ==
    /\ InitMultiCaseIdle
    /\ \E h \in Headers :
        xl_profile = [header |-> h, flows |-> [s \in Sinks |-> [i \in 1..Len(h) |-> MaxFlow]]]
    /\ \E c \in SeqsUpTo(ConditionLabels \cup {"None"}, MaxConditionRows) :
        /\ Len(c) >= 1
        /\ xl_conditions = [k \in 1..Len(c) |-> SinkRow(c[k])]
    /\ base_model = [open |-> FALSE,
                     sinks |-> [s \in Sinks |->
                                    [LiquidFlowRate |-> 0, IsActive |-> TRUE,
                                     FlowRateType |-> "LiquidFlowRate", Pressure |-> 0]],
                     settings |-> [AmbientTemperature |-> 0]]

\* The NaN pandas reads from an empty Value cell, as a number no cell holds.
NaNValue == -1

\* Rows of the conditions sheet under one label: any of name, parameter and value
\* may be an empty cell.
ParameterRows ==
    [Conditions : {"X"}, ComponentName : {"S1", "S2", "None"}, ComponentType : {"Sink"},
     Parameter : {"Pressure", "None"}, Value : {7, 8, NaNValue}]
    \cup
    [Conditions : {"X"}, ComponentName : {"Settings", "None"},
     ComponentType : {SimulationSetting}, Parameter : {"AmbientTemperature"}, Value : {7}]

\* The parameter overrides: any rows of the conditions sheet, over one fixed profile
\* sheet and model.
InitParameters ==
    /\ InitMultiCaseIdle
    /\ xl_profile = [header |-> <<<<"A">>>>, flows |-> [s \in Sinks |-> <<MaxFlow>>]]
    /\ xl_conditions \in SeqsUpTo(ParameterRows, MaxConditionRows)
    /\ base_model = [open |-> FALSE,
                     sinks |-> [s \in Sinks |->
                                    [LiquidFlowRate |-> 0, IsActive |-> TRUE,
                                     FlowRateType |-> "LiquidFlowRate", Pressure |-> 0]],
                     settings |-> [AmbientTemperature |-> 0]]

\* The settings of the template before any build.
TemplateSettings == [AmbientTemperature |-> 0]

\* The order of the cases: the rows of two conditions in any order, over one fixed
\* profile sheet and template.
InitCaseOrder ==
    /\ InitMultiCaseIdle
    /\ xl_profile = [header |-> <<<<"A">>>>, flows |-> [s \in Sinks |-> <<MaxFlow>>]]
    /\ xl_conditions \in SeqsUpTo({SinkRow("X"), SettingRow("X"), SinkRow("Y"),
                                    SettingRow("Y")}, MaxConditionRows)
    /\ base_model = [open |-> FALSE,
                     sinks |-> [s \in Sinks |->
                                    [LiquidFlowRate |-> 0, IsActive |-> TRUE,
                                     FlowRateType |-> "LiquidFlowRate", Pressure |-> 0]],
                     settings |-> TemplateSettings]

\* The sink data: any flow cells and any base model, under one fixed header.
InitSinks ==
    /\ InitMultiCaseIdle
    /\ \E f \in FlowTables(2) :
        xl_profile = [header |-> <<<<"A">>, <<"B">>>>, flows |-> f]
    /\ xl_conditions \in {<<SinkRow("X")>>, <<SettingRow("X")>>}
    /\ base_model \in BaseModels

\* MultiCaseModeller.__init__
MultiCaseModeller_init ==
    /\ mc_pc = "new"
    /\ sink_profile' = FetchSinkProfile(xl_profile)
    /\ conditions' = FetchConditions(xl_conditions)
    /\ mc_pc' = "loaded"
    /\ UNCHANGED <<xl_profile, xl_conditions, base_model, model, cases, cases_todo,
                   current, saved_models, engine_log, notMc>>

\* build_all_models: `for case, condition in self.cases`
build_all_models ==
    /\ mc_pc = "loaded"
    /\ cases' = Cases(sink_profile, conditions)
    /\ cases_todo' = Cases(sink_profile, conditions)
    /\ mc_pc' = "looping"
    /\ UNCHANGED <<xl_profile, xl_conditions, sink_profile, conditions, base_model,
                   model, current, saved_models, engine_log, notMc>>

\* build_model: self.model = Model.open(self.base_model_path)
build_model_open ==
    /\ mc_pc = "looping"
    /\ cases_todo # <<>>
    /\ current' = Head(cases_todo)
    /\ cases_todo' = Tail(cases_todo)
    /\ model' = [base_model EXCEPT !.open = TRUE]
    /\ engine_log' = <<[op |-> "open", path |-> BaseModelPath]>>
    /\ mc_pc' = "opened"
    /\ UNCHANGED <<xl_profile, xl_conditions, sink_profile, conditions, base_model,
                   cases, saved_models, notMc>>

\* set_simulation_settings(condition): the setting rows are assigned, then
\* reset_conditions() and self.model.save(), which writes the file the model was
\* opened from.
set_simulation_settings ==
    /\ mc_pc = "opened"
    /\ LET df == RowsOf(conditions, current[2])
       IN  IF df = <<>>
           THEN UNCHANGED <<model, base_model, engine_log>>
           ELSE /\ model' = [model EXCEPT !.settings = ApplySettings(model.settings, df)]
                /\ base_model' = [model' EXCEPT !.open = FALSE]
                /\ engine_log' = engine_log \o SettingCalls(df)
                        \o <<[op |-> "reset_conditions"], [op |-> "save", path |-> BaseModelPath]>>
    /\ mc_pc' = "settings_set"
    /\ UNCHANGED <<xl_profile, xl_conditions, sink_profile, conditions, cases,
                   cases_todo, current, saved_models, notMc>>

\* set_parameters_dict(condition): model.set_values(dict=result), reset_conditions()
set_parameters_dict ==
    /\ mc_pc = "settings_set"
    /\ LET data == RowsOf(conditions, current[2])
       IN  IF data = <<>>
           THEN UNCHANGED <<model, engine_log>>
           ELSE /\ model' = [model EXCEPT !.sinks =
                                SetValues(model.sinks, ParametersDict(<<>>, data))]
                /\ engine_log' = engine_log
                        \o <<[op |-> "set_values", dict |-> ParametersDict(<<>>, data)],
                             [op |-> "reset_conditions"]>>
    /\ mc_pc' = "parameters_set"
    /\ UNCHANGED <<xl_profile, xl_conditions, sink_profile, conditions, base_model,
                   cases, cases_todo, current, saved_models, notMc>>

\* set_sink_data(case): raises, or pushes the sink data with model.set_values
set_sink_data ==
    /\ mc_pc = "parameters_set"
    /\ IF SinkDataRaises(sink_profile, model, current[1])
       THEN /\ mc_pc' = "failed"
            /\ engine_log' = Append(engine_log, [op |-> "get_values"])
            /\ UNCHANGED model
       ELSE /\ mc_pc' = "sinks_set"
            /\ model' = [model EXCEPT !.sinks =
                            SetValues(model.sinks, SinkDataDict(sink_profile, current[1]))]
            /\ engine_log' = engine_log
                    \o <<[op |-> "get_values"],
                         [op |-> "set_values", dict |-> SinkDataDict(sink_profile, current[1])]>>
    /\ UNCHANGED <<xl_profile, xl_conditions, sink_profile, conditions, base_model,
                   cases, cases_todo, current, saved_models, notMc>>

\* save_as_new_model(case, condition): model.save(<case>_<condition>_<base name>)
save_as_new_model ==
    /\ mc_pc = "sinks_set"
    /\ LET new_file == NewFile(current[1], current[2])
       IN  /\ saved_models' = {f \in saved_models : f.path # new_file}
                                \cup {[path |-> new_file, key |-> current,
                                       sinks |-> model.sinks, settings |-> model.settings]}
           /\ engine_log' = Append(engine_log, [op |-> "save", path |-> new_file])
    /\ mc_pc' = "saved"
    /\ UNCHANGED <<xl_profile, xl_conditions, sink_profile, conditions, base_model,
                   model, cases, cases_todo, current, notMc>>

\* close_model
close_model ==
    /\ mc_pc = "saved"
    /\ model' = ClosedModel
    /\ engine_log' = Append(engine_log, [op |-> "close"])
    /\ mc_pc' = "looping"
    /\ UNCHANGED <<xl_profile, xl_conditions, sink_profile, conditions, base_model,
                   cases, cases_todo, current, saved_models, notMc>>

NextMultiCase ==
    \/ MultiCaseModeller_init
    \/ build_all_models
    \/ build_model_open
    \/ set_simulation_settings
    \/ set_parameters_dict
    \/ set_sink_data
    \/ save_as_new_model
    \/ close_model

\* C3: the list `cases` is exactly the Cartesian product of the case columns of the
\* loaded profile table and the distinct condition labels of the loaded conditions
\* table: every (case, condition) pair appears exactly once, and nothing else appears.
C3_CasesAreTheCartesianProduct ==
    mc_pc \notin {"idle", "new", "loaded"} =>
        LET cols == Range(sink_profile.columns)
            labs == {conditions[k].Conditions : k \in 1..Len(conditions)}
        IN  /\ \A c \in cols, l \in labs :
                    Cardinality({k \in 1..Len(cases) : cases[k] = <<c, l>>}) = 1
            /\ \A k \in 1..Len(cases) : cases[k][1] \in cols /\ cases[k][2] \in labs

\* The flow cell of sink s in the column of the case being built.
CurrentFlow(s) ==
    LET col == CHOOSE i \in 1..Len(sink_profile.columns) :
                    sink_profile.columns[i] = current[1]
    IN  xl_profile.flows[s][col]

\* C4: after set_sink_data(case) every sink of the model is active exactly when its
\* flow in the case column is strictly greater than the minimum-flow threshold: a
\* flow equal to the threshold leaves the sink inactive, a flow above it makes the
\* sink active whatever its state in the base model.
C4_ActiveIffFlowAboveMinimum ==
    mc_pc = "sinks_set" =>
        \A s \in DOMAIN model.sinks :
            model.sinks[s].IsActive = (CurrentFlow(s) > MINIMUM_FLOWRATE)

\* C4 witness: set_sink_data has deactivated a sink that was active in the base model
\* and whose flow equals the threshold, and activated one that was inactive.
C4_Witness ==
    /\ mc_pc = "sinks_set"
    /\ \E s, r \in DOMAIN model.sinks :
        /\ CurrentFlow(s) = MINIMUM_FLOWRATE
        /\ base_model.sinks[s].IsActive
        /\ ~model.sinks[s].IsActive
        /\ CurrentFlow(r) > MINIMUM_FLOWRATE
        /\ ~base_model.sinks[r].IsActive
        /\ model.sinks[r].IsActive

\* C11: whenever build_model has ended for a case, by returning (the loop is back in
\* build_all_models) or by raising, the engine session it opened is closed.
C11_SessionClosedWhenBuildModelEnds ==
    mc_pc \in {"looping", "failed"} => ~model.open

\* C13: the multi-case workflow comes to rest only when every case of the matrix has
\* been visited: a case that fails does not keep the remaining ones from being built.
C13_RemainingCasesAreBuilt ==
    (mc_pc # "idle" /\ ~ENABLED NextMultiCase) => cases_todo = <<>>

\* The text <case>_<condition>_<original filename> of a case key.
VariantName(key) == key[1] \o <<"_">> \o Chars(key[2]) \o <<"_">> \o BaseName

\* The file name of a saved path: what follows the folder.
NameOf(path) == SubSeq(path, 8, Len(path))

C15_BaseModelFileUnchanged == [][base_model' = base_model]_vars

\* The rows of the conditions sheet for the condition of the running build_model.
ActiveRows == {k \in 1..Len(conditions) : conditions[k].Conditions = current[2]}

\* The rows among them that have a component name, a parameter and a value.
CompleteRows(c, q) ==
    {k \in ActiveRows :
        /\ conditions[k].ComponentName = c
        /\ conditions[k].Parameter = q
        /\ conditions[k].Value # NaNValue}

\* The dictionary of the set_values call set_parameters_dict has just made.
PushedParameters == engine_log[Len(engine_log) - 1].dict

\* The settings build_model gives the variant of a condition when it starts from the
\* template as it was before any build.
SettingsBuiltFirst(condition) ==
    ApplySettings(TemplateSettings, RowsOf(conditions, condition))

\* C26: the variant saved for a case does not depend on the cases built before it:
\* its settings are those the same build gives when it is the first of the matrix.
C26_VariantIndependentOfBuildOrder ==
    \A f \in saved_models : f.settings = SettingsBuiltFirst(f.key[2])

\* C21: a row of the simulation-settings pseudo-type is applied by an attribute
\* assignment on the settings object and is not in the dictionary that
\* set_parameters_dict passes to set_values for the same condition.
C21_SettingRowsAreNotPushed ==
    (mc_pc = "parameters_set" /\ ActiveRows # {}) =>
        \A k \in ActiveRows :
            conditions[k].ComponentType = SimulationSetting =>
                /\ \E i \in 1..Len(engine_log) :
                        /\ engine_log[i].op = "setattr"
                        /\ engine_log[i].attr = conditions[k].Parameter
                /\ ~(/\ conditions[k].ComponentName \in DOMAIN PushedParameters
                      /\ conditions[k].Parameter
                            \in DOMAIN PushedParameters[conditions[k].ComponentName])

\* C20: the map set_parameters_dict pushes to the engine holds an entry for a
\* component and parameter exactly when a row of the active condition names them and
\* has a value: a row without component name or without value adds nothing to it.
C20_OnlyCompleteRowsArePushed ==
    (mc_pc = "parameters_set" /\ ActiveRows # {}) =>
        \A c \in {"S1", "S2"}, q \in {"Pressure"} :
            (c \in DOMAIN PushedParameters /\ q \in DOMAIN PushedParameters[c])
                <=> CompleteRows(c, q) # {}

(***************************************************************************)
(* Result reshaping: NetworkSimulator (app) and NetworkSimulation (legacy)  *)
(***************************************************************************)
\* Nodes the engine may report, besides its units row.
MaxNodes == 3

\* Rows the engine may report for one branch.
MaxProfileRows == 3

\* The key of the units row in every variable of results.node.
UnitNode == 0

NodeNames == 1..MaxNodes

\* Values of BoundaryNodeType; "None" is a node the boundary table has no column for.
BoundaryTypes == {"Sink", "Source"}

Branches == {"B1", "B2"}

\* Labels of the BranchEquipment column; "None" is a cell the engine left empty.
EquipmentLabels == {"PumpA", "StrainerB"}

\* String order of the values the tables are sorted by; a missing value sorts last
\* whatever the direction (na_position="last").
TypeRank(type) == IF type = "Sink" THEN 1 ELSE IF type = "Source" THEN 2 ELSE 0

LabelRank(label) == IF label = "PumpA" THEN 1 ELSE IF label = "StrainerB" THEN 2 ELSE 3

BranchRank(branch) == IF branch = "B1" THEN 1 ELSE 2

\* The lookup of process_node_results: the node's BoundaryNodeType, None when the
\* boundary table has no column for it.
WithType(nodes, bc) ==
    [k \in 1..Len(nodes) |->
        [Node |-> nodes[k],
         Type |-> IF nodes[k] \in DOMAIN bc THEN bc[nodes[k]] ELSE "None"]]

TypeAscending(a, b) ==
    \/ a.Type # "None" /\ b.Type = "None"
    \/ a.Type # "None" /\ b.Type # "None" /\ TypeRank(a.Type) < TypeRank(b.Type)
    \/ a.Type = b.Type /\ a.Node < b.Node

\* sort_values(by=[TYPE, "Node"], ascending=[False, True]): missing types last.
TypeDescNodeAsc(a, b) ==
    \/ a.Type # "None" /\ b.Type = "None"
    \/ a.Type # "None" /\ b.Type # "None" /\ TypeRank(a.Type) > TypeRank(b.Type)
    \/ a.Type = b.Type /\ a.Node < b.Node

\* The node rows in the order of sort_values: row r comes after the rows before it.
SortNodeRows(rows) ==
    [k \in 1..Len(rows) |->
        CHOOSE r \in Range(rows) :
            Cardinality({q \in Range(rows) : TypeDescNodeAsc(q, r)}) = k - 1]

IsUnitRow(row) == row.Node = UnitNode

IsNodeRow(row) == row.Node # UnitNode

HasType(row) == row.Type # "None"

\* NetworkSimulator.process_node_results: the rows named "Unit" are taken out, the
\* rest is sorted and the unit rows are put in front.
AppNodeResults(nodes, bc) ==
    LET rows     == WithType(nodes, bc)
        unit_row == SelectSeq(rows, IsUnitRow)
        rest     == SelectSeq(rows, IsNodeRow)
    IN  unit_row \o SortNodeRows(rest)

\* NetworkSimulation.process_node_results: the first row is kept aside, all rows are
\* sorted, the rows without a type are dropped and the first row is put in front.
LegacyNodeResults(nodes, bc) ==
    LET rows              == WithType(nodes, bc)
        node_results_unit == SubSeq(rows, 1, 1)
        sorted            == SortNodeRows(rows)
    IN  node_results_unit \o SelectSeq(sorted, HasType)

\* The rows of one branch as a table: the label and the row's position in the branch.
BranchRows(branch, labels) ==
    [i \in 1..Len(labels) |->
        [Branch |-> branch, BranchEquipment |-> labels[i], src |-> <<branch, i>>]]

\* Series.ffill(): an empty cell takes the last label above it, if there is one.
RECURSIVE Ffill(_)
Ffill(rows) ==
    IF rows = <<>> THEN <<>>
    ELSE LET init == Ffill(SubSeq(rows, 1, Len(rows) - 1))
             last == rows[Len(rows)]
         IN  IF last.BranchEquipment = "None" /\ init # <<>>
             THEN Append(init, [last EXCEPT !.BranchEquipment =
                                    init[Len(init)].BranchEquipment])
             ELSE Append(init, last)

\* drop_duplicates(subset=["BranchEquipment"], keep="last"); empty cells equal each other.
KeepLast(rows) ==
    LET keep(i) == \A j \in (i + 1)..Len(rows) :
                        rows[j].BranchEquipment # rows[i].BranchEquipment
        idx == {i \in 1..Len(rows) : keep(i)}
    IN  [k \in 1..Cardinality(idx) |->
            rows[CHOOSE i \in idx : Cardinality({j \in idx : j < i}) = k - 1]]

HasEquipment(row) == row.BranchEquipment # "None"

\* sort_values(by=["Branch", "BranchEquipment"]): ascending, empty labels last.
BranchThenEquipment(a, b) ==
    \/ BranchRank(a.Branch) < BranchRank(b.Branch)
    \/ /\ a.Branch = b.Branch
       /\ LabelRank(a.BranchEquipment) < LabelRank(b.BranchEquipment)

SortProfileRows(rows) ==
    [k \in 1..Len(rows) |->
        CHOOSE r \in Range(rows) :
            Cardinality({q \in Range(rows) : BranchThenEquipment(q, r)}) = k - 1]

UnitsRow == [Branch |-> "None", BranchEquipment |-> "None", src |-> <<"Units", 0>>]

\* NetworkSimulator.process_profile_results, the loop body for one branch.
AppUniqueRows(branch, labels) == KeepLast(Ffill(BranchRows(branch, labels)))

\* NetworkSimulation.process_profile_results, the loop body for one branch: the rows
\* without a label are dropped before the fill.
LegacyUniqueRows(branch, labels) ==
    KeepLast(Ffill(SelectSeq(BranchRows(branch, labels), HasEquipment)))

\* pd.concat(dfs) over the branches in sorted order.
AppCombined(profile) ==
    AppUniqueRows("B1", profile["B1"]) \o AppUniqueRows("B2", profile["B2"])

LegacyCombined(profile) ==
    LegacyUniqueRows("B1", profile["B1"]) \o LegacyUniqueRows("B2", profile["B2"])

AppProfileResults(profile) == <<UnitsRow>> \o SortProfileRows(AppCombined(profile))

\* The orders sort_values(by=["BranchEquipment"]) may give the legacy table: rows of
\* equal label come in either order (the sort is not stable).
LegacyProfileOrders(profile) ==
    LET rows == LegacyCombined(profile)
        n    == Len(rows)
    IN  {s \in [1..n -> Range(rows)] :
            /\ \A i, j \in 1..n : i # j => s[i] # s[j]
            /\ \A i \in 1..(n - 1) :
                LabelRank(s[i].BranchEquipment) <= LabelRank(s[i + 1].BranchEquipment)}

\* The engine's node rows: the units row first, then distinct nodes in any order.
NodeOrders ==
    {<<UnitNode>> \o s : s \in {q \in SeqsUpTo(NodeNames, MaxNodes) :
                                    \A i, j \in 1..Len(q) : i # j => q[i] # q[j]}}

\* The boundary tables: a column for some of the nodes.
BoundaryTables == UNION {[S -> BoundaryTypes] : S \in SUBSET NodeNames}

ProfileColumns == SeqsUpTo(EquipmentLabels \cup {"None"}, MaxProfileRows)

\* No simulation has run.
IdleResults ==
    /\ rs_pc = "idle"
    /\ rs_impl = "None"
    /\ results_node = <<>>
    /\ boundary_conditions = <<>>
    /\ results_profile = <<>>
    /\ node_results = <<>>
    /\ profile_results = <<>>

\* After run_simulation: any node results and boundary table, one fixed profile.
InitNodeResults ==
    /\ rs_pc = "ran"
    /\ rs_impl \in {"app", "legacy"}
    /\ results_node \in NodeOrders
    /\ boundary_conditions \in BoundaryTables
    /\ results_profile = [b \in Branches |-> <<"PumpA", "None">>]
    /\ node_results = <<>>
    /\ profile_results = <<>>

\* After run_simulation: any profile results, one fixed node table.
InitProfileResults ==
    /\ rs_pc = "ran"
    /\ rs_impl \in {"app", "legacy"}
    /\ results_node = <<UnitNode, 1>>
    /\ boundary_conditions = [n \in {1} |-> "Sink"]
    /\ results_profile \in [Branches -> ProfileColumns]
    /\ node_results = <<>>
    /\ profile_results = <<>>

\* NetworkSimulator.process_node_results
process_node_results ==
    /\ rs_pc = "ran"
    /\ rs_impl = "app"
    /\ node_results' = AppNodeResults(results_node, boundary_conditions)
    /\ rs_pc' = "node_done"
    /\ UNCHANGED <<rs_impl, results_node, boundary_conditions, results_profile,
                   profile_results, notRs>>

\* NetworkSimulation.process_node_results
legacy_process_node_results ==
    /\ rs_pc = "ran"
    /\ rs_impl = "legacy"
    /\ node_results' = LegacyNodeResults(results_node, boundary_conditions)
    /\ rs_pc' = "node_done"
    /\ UNCHANGED <<rs_impl, results_node, boundary_conditions, results_profile,
                   profile_results, notRs>>

\* NetworkSimulator.process_profile_results
process_profile_results ==
    /\ rs_pc = "node_done"
    /\ rs_impl = "app"
    /\ profile_results' = AppProfileResults(results_profile)
    /\ rs_pc' = "profile_done"
    /\ UNCHANGED <<rs_impl, results_node, boundary_conditions, results_profile,
                   node_results, notRs>>

\* NetworkSimulation.process_profile_results
legacy_process_profile_results ==
    /\ rs_pc = "node_done"
    /\ rs_impl = "legacy"
    /\ \E s \in LegacyProfileOrders(results_profile) :
        profile_results' = <<UnitsRow>> \o s
    /\ rs_pc' = "profile_done"
    /\ UNCHANGED <<rs_impl, results_node, boundary_conditions, results_profile,
                   node_results, notRs>>

NextResults ==
    \/ process_node_results
    \/ legacy_process_node_results
    \/ process_profile_results
    \/ legacy_process_profile_results

\* The rows of the node table that are not the units row.
NodeRowsOut == {k \in 1..Len(node_results) : node_results[k].Node # UnitNode}

\* C5: once the node results are reshaped, no node row whose boundary type could not
\* be resolved from the boundary-condition table is left in the node table.
C5_UnresolvedNodeRowsAreDropped ==
    rs_pc \in {"node_done", "profile_done"} =>
        \A k \in NodeRowsOut :
            node_results[k].Node \in DOMAIN boundary_conditions

\* C6: the reshaped node table has the units row as its first row and nowhere else,
\* and its other rows come by boundary type descending, then node name ascending
\* (a row without a type after every row with one).
C6_UnitsRowFirstThenTypeDescNameAsc ==
    rs_pc \in {"node_done", "profile_done"} =>
        /\ Len(node_results) >= 1
        /\ node_results[1].Node = UnitNode
        /\ \A k \in 2..Len(node_results) : node_results[k].Node # UnitNode
        /\ \A i, j \in 2..Len(node_results) :
            i < j =>
                \/ TypeRank(node_results[i].Type) > TypeRank(node_results[j].Type)
                \/ /\ node_results[i].Type = node_results[j].Type
                   /\ node_results[i].Node < node_results[j].Node

\* A table of three nodes of both types, given by the engine in name order, reshaped.
C6_Witness ==
    /\ rs_pc = "node_done"
    /\ results_node = <<UnitNode, 1, 2, 3>>
    /\ Len(node_results) = 4
    /\ node_results[2].Type = "Source"
    /\ node_results[2].Node = 2
    /\ node_results[3].Type = "Sink"
    /\ node_results[4].Type = "Sink"

\* The label row i of a branch carries once the empty cells are filled from above.
FilledLabel(labels, i) ==
    LET above == {j \in 1..i : labels[j] # "None"}
    IN  IF above = {} THEN "None"
        ELSE labels[CHOOSE j \in above : \A q \in above : q <= j]

\* The rows of the reshaped profile table that come from branch b and carry label l.
KeptRows(b, l) ==
    {k \in 1..Len(profile_results) :
        /\ profile_results[k].src[1] = b
        /\ profile_results[k].BranchEquipment = l}

\* C7: for every branch and every equipment label of the branch, the reshaped profile
\* table holds exactly one row of that branch with that label, and it is the last row
\* of the branch that carries the label after the forward fill.
C7_LastRowPerEquipmentLabel ==
    rs_pc = "profile_done" =>
        \A b \in Branches : \A l \in EquipmentLabels :
            LET labels   == results_profile[b]
                carrying == {i \in 1..Len(labels) : FilledLabel(labels, i) = l}
            IN  carrying # {} =>
                    /\ Cardinality(KeptRows(b, l)) = 1
                    /\ \A k \in KeptRows(b, l) : \A i \in carrying :
                            i <= profile_results[k].src[2]

(***************************************************************************)
(* Summaries: NetworkSimulationSummary (app and legacy)                     *)
(***************************************************************************)
\* Rows of a result sheet.
MaxSheetRows == 3

\* Rows of a profile sheet the operating points are read from.
MaxPumpRows == 2

\* The numbers a result cell may hold.
Values == 1..3

\* A cell of a sheet: a number, a text (the units row holds "barg") or nothing.
Num(n) == [kind |-> "num", v |-> n]

Text == [kind |-> "str", v |-> 0]

NaN == [kind |-> "nan", v |-> 0]

Cells == {Num(n) : n \in Values} \cup {Text}

\* pd.to_numeric(errors="coerce"): what does not parse becomes NaN.
ToNumeric(cell) == IF cell.kind = "num" THEN cell ELSE NaN

NodeParameters == <<"Pressure", "Temperature">>

\* The sheet as a table: one row per index label, the cells of the parameter columns,
\* and the "Min/Max" column, which the sheet does not have yet.
SheetRows(cols) ==
    [k \in 1..Len(cols) |-> [idx |-> k, cell |-> cols[k], MinMax |-> "NaN"]]

Coerce(df, parameter) ==
    [k \in 1..Len(df) |->
        [df[k] EXCEPT !.cell = [@ EXCEPT ![parameter] = ToNumeric(@)]]]

Numeric(df, parameter) == {k \in 1..Len(df) : df[k].cell[parameter].kind = "num"}

\* Series.idxmin(): the first row holding the smallest number, NaN skipped.
IdxMin(df, parameter) ==
    CHOOSE k \in Numeric(df, parameter) :
        \A q \in Numeric(df, parameter) :
            \/ df[k].cell[parameter].v < df[q].cell[parameter].v
            \/ df[k].cell[parameter].v = df[q].cell[parameter].v /\ k <= q

\* Series.idxmax(): the first row holding the largest number, NaN skipped.
IdxMax(df, parameter) ==
    CHOOSE k \in Numeric(df, parameter) :
        \A q \in Numeric(df, parameter) :
            \/ df[k].cell[parameter].v > df[q].cell[parameter].v
            \/ df[k].cell[parameter].v = df[q].cell[parameter].v /\ k <= q

\* df.loc[min_idx, "Min/Max"] = "Minimum", then df.loc[max_idx, "Min/Max"] = "Maximum".
Tagged(df, min_idx, max_idx) ==
    [[df EXCEPT ![min_idx].MinMax = "Minimum"] EXCEPT ![max_idx].MinMax = "Maximum"]

SummaryRow(df, k, parameter) ==
    [equipment |-> df[k].idx, parameter |-> parameter, value |-> df[k].cell[parameter],
     MinMax |-> df[k].MinMax]

\* The label NaN is not in the index: the two assignments add one row for it, which
\* is then selected twice.
EnlargedRow(parameter) ==
    [equipment |-> 0, parameter |-> parameter, value |-> NaN, MinMax |-> "Maximum"]

\* The body of the extraction for one parameter: the frame it leaves, the rows it
\* selects, and whether idxmin raised.
MinMaxOf(df, parameter, all_nan) ==
    LET num == Coerce(df, parameter)
    IN  IF Numeric(num, parameter) = {}
        THEN [df |-> num, raised |-> all_nan = "raises",
              rows |-> IF all_nan = "raises" THEN <<>>
                       ELSE <<EnlargedRow(parameter), EnlargedRow(parameter)>>]
        ELSE LET min_idx == IdxMin(num, parameter)
                 max_idx == IdxMax(num, parameter)
                 tagged  == Tagged(num, min_idx, max_idx)
             IN  [df |-> tagged, raised |-> FALSE,
                  rows |-> <<SummaryRow(tagged, min_idx, parameter),
                             SummaryRow(tagged, max_idx, parameter)>>]

\* NetworkSimulationSummary.get_min_max_parameters (app): the loop over the parameters
\* on one copy of the frame; a raise leaves the function without a result.
RECURSIVE MinMaxLoop(_, _, _, _)
MinMaxLoop(df, parameters, result_list, all_nan) ==
    IF parameters = <<>> THEN [raised |-> FALSE, rows |-> result_list]
    ELSE LET r == MinMaxOf(df, Head(parameters), all_nan)
         IN  IF r.raised THEN [raised |-> TRUE, rows |-> <<>>]
             ELSE MinMaxLoop(r.df, Tail(parameters), result_list \o r.rows, all_nan)

\* The parameters the summary of a node sheet is asked for.
ParametersOf(impl) == IF impl = "app" THEN NodeParameters ELSE <<"Pressure">>

\* The sheets: up to MaxSheetRows rows with a cell for every parameter.
SheetTables ==
    {SheetRows(cols) : cols \in SeqsUpTo([Range(NodeParameters) -> Cells], MaxSheetRows)}

\* ---- pump operating points (legacy only)
\* The sheets of the profile workbook: one per case.
CaseSheets == {"A-EO", "B"}

\* config.STRAINER_NAME[0] and config.PUMP_NAME[0]
suction_node == "Strainer"

discharge_node == "Pump"

PumpLabels == {suction_node, discharge_node, "Valve"}

Pressures == {50, 120}

NoError == [type |-> "None", names |-> {}]

\* The value of an attribute that was never assigned.
Unassigned == <<"unassigned">>

\* A profile sheet: whether it has the BranchEquipment and Pressure columns, and its rows.
ProfileTables ==
    {[columns |-> TRUE, rows |-> r] :
        r \in SeqsUpTo([BranchEquipment : PumpLabels, Pressure : Pressures], MaxPumpRows)}
    \cup {[columns |-> FALSE, rows |-> <<>>]}

\* df.loc[df["BranchEquipment"] == node, "Pressure"].values
PressuresAt(df, node) ==
    LET IsNode(row) == row.BranchEquipment = node
        Matching == SelectSeq(df.rows, IsNode)
    IN  [k \in 1..Len(Matching) |-> Matching[k].Pressure]

\* NetworkSimulationSummary.get_pump_operating_point: the one-row table of the case,
\* KeyError when a column is missing, IndexError when a label has no row.
get_pump_operating_point(df, case) ==
    IF ~df.columns
    THEN [raised |-> "KeyError", names |-> {"BranchEquipment"}, row |-> <<>>]
    ELSE IF PressuresAt(df, suction_node) = <<>> \/ PressuresAt(df, discharge_node) = <<>>
    THEN [raised |-> "IndexError", names |-> {suction_node, discharge_node, case},
          row |-> <<>>]
    ELSE LET suction   == PressuresAt(df, suction_node)[1]
             discharge == PressuresAt(df, discharge_node)[1]
         IN  [raised |-> "None", names |-> {},
              row |-> [Case |-> case, SuctionPressure |-> suction,
                       DischargePressure |-> discharge,
                       PumpHead |-> discharge - suction]]

\* A handler that also logs and skips a case whose label is missing.
CaughtWithIndexError(raised) == raised \in {"KeyError", "IndexError"}

\* `except KeyError` of the loop in get_pump_operating_points.
IsCaught(raised) == raised = "KeyError"

\* The loop of get_pump_operating_points over self.profile_sheets.
RECURSIVE PumpLoop(_, _, _)
PumpLoop(sheets, xl, dfs) ==
    IF sheets = <<>> THEN [error |-> NoError, dfs |-> dfs]
    ELSE LET sht == Head(sheets)
             r   == get_pump_operating_point(xl[sht], sht)
         IN  IF r.raised = "None" THEN PumpLoop(Tail(sheets), xl, Append(dfs, r.row))
             ELSE IF IsCaught(r.raised) THEN PumpLoop(Tail(sheets), xl, dfs)
             ELSE [error |-> [type |-> r.raised, names |-> r.names], dfs |-> dfs]

\* np.where(Case.str.contains("-EO"), "Early Operation", "Late Operation")
Operation(case) == IF case = "A-EO" THEN "Early Operation" ELSE "Late Operation"

\* sort_values(by=["Operation", "Case"]): early before late, then by case.
OperationThenCase(a, b) ==
    \/ Operation(a.Case) = "Early Operation" /\ Operation(b.Case) = "Late Operation"
    \/ Operation(a.Case) = Operation(b.Case) /\ a.Case = "A-EO" /\ b.Case = "B"

SortPoints(rows) ==
    [k \in 1..Len(rows) |->
        CHOOSE r \in Range(rows) :
            Cardinality({q \in Range(rows) : OperationThenCase(q, r)}) = k - 1]

\* The orders the workbook may hold its sheets in.
SheetOrders ==
    {s \in SeqsUpTo(CaseSheets, 2) : s # <<>> /\ \A i, j \in 1..Len(s) : i # j => s[i] # s[j]}

\* No summary has been asked for.
IdleSummary ==
    /\ sm_pc = "idle"
    /\ sm_impl = "None"
    /\ idx_all_nan = "None"
    /\ sheet_df = <<>>
    /\ summary_rows = <<>>
    /\ profile_sheets = <<>>
    /\ profile_xl = <<>>
    /\ pump_operating_points = Unassigned
    /\ sm_error = NoError
    /\ sm_written = FALSE

\* A summary object over any result sheet; the profile workbook is one fixed workbook.
InitMinMax ==
    /\ sm_pc = "loaded"
    /\ sm_impl \in {"app", "legacy"}
    /\ idx_all_nan \in {"raises", "nan"}
    /\ sheet_df \in SheetTables
    /\ summary_rows = <<>>
    /\ profile_sheets = <<"B">>
    /\ profile_xl = [c \in CaseSheets |->
                        [columns |-> TRUE,
                         rows |-> <<[BranchEquipment |-> suction_node, Pressure |-> 50],
                                    [BranchEquipment |-> discharge_node, Pressure |-> 120]>>]]
    /\ pump_operating_points = Unassigned
    /\ sm_error = NoError
    /\ sm_written = FALSE

\* A summary object over any profile workbook; the result sheet is one fixed sheet.
InitPumpPoints ==
    /\ sm_pc = "loaded"
    /\ sm_impl = "legacy"
    /\ idx_all_nan = "raises"
    /\ sheet_df = SheetRows(<<[q \in Range(NodeParameters) |-> Text],
                              [q \in Range(NodeParameters) |-> Num(2)],
                              [q \in Range(NodeParameters) |-> Num(1)]>>)
    /\ summary_rows = <<>>
    /\ profile_sheets \in SheetOrders
    /\ profile_xl \in [CaseSheets -> ProfileTables]
    /\ pump_operating_points = Unassigned
    /\ sm_error = NoError
    /\ sm_written = FALSE

\* NetworkSimulationSummary.get_min_max_parameters (app), for one sheet
get_min_max_parameters ==
    /\ sm_pc = "loaded"
    /\ sm_impl = "app"
    /\ LET r == MinMaxLoop(sheet_df, ParametersOf("app"), <<>>, idx_all_nan)
       IN  /\ summary_rows' = r.rows
           /\ sm_pc' = IF r.raised THEN "raised" ELSE "summarised"
           /\ sm_error' = IF r.raised THEN [type |-> "ValueError", names |-> {}]
                          ELSE sm_error
    /\ UNCHANGED <<sm_impl, idx_all_nan, sheet_df, profile_sheets, profile_xl,
                   pump_operating_points, sm_written, notSm>>

\* NetworkSimulationSummary.get_min_max_parameter (legacy), for one sheet
get_min_max_parameter ==
    /\ sm_pc = "loaded"
    /\ sm_impl = "legacy"
    /\ LET r == MinMaxOf(sheet_df, "Pressure", idx_all_nan)
       IN  /\ summary_rows' = r.rows
           /\ sm_pc' = IF r.raised THEN "raised" ELSE "summarised"
           /\ sm_error' = IF r.raised THEN [type |-> "ValueError", names |-> {}]
                          ELSE sm_error
    /\ UNCHANGED <<sm_impl, idx_all_nan, sheet_df, profile_sheets, profile_xl,
                   pump_operating_points, sm_written, notSm>>

\* NetworkSimulationSummary.get_pump_operating_points (legacy): an exception other
\* than KeyError leaves the method, and wave_summarize_results, which catches
\* SummaryError only; pd.concat of no table raises ValueError.
get_pump_operating_points ==
    /\ sm_pc = "summarised"
    /\ sm_impl = "legacy"
    /\ LET r == PumpLoop(profile_sheets, profile_xl, <<>>)
       IN  IF r.error # NoError
           THEN /\ sm_pc' = "raised"
                /\ sm_error' = r.error
                /\ UNCHANGED pump_operating_points
           ELSE IF r.dfs = <<>>
           THEN /\ sm_pc' = "raised"
                /\ sm_error' = [type |-> "ValueError", names |-> {}]
                /\ UNCHANGED pump_operating_points
           ELSE /\ sm_pc' = "points_done"
                /\ pump_operating_points' = SortPoints(r.dfs)
                /\ UNCHANGED sm_error
    /\ UNCHANGED <<sm_impl, idx_all_nan, sheet_df, summary_rows, profile_sheets,
                   profile_xl, sm_written, notSm>>

\* NetworkSimulationSummary.write_pump_operating_points, the last call of
\* wave_summarize_results
write_pump_operating_points ==
    /\ sm_pc = "points_done"
    /\ sm_written' = TRUE
    /\ sm_pc' = "written"
    /\ UNCHANGED <<sm_impl, idx_all_nan, sheet_df, summary_rows, profile_sheets,
                   profile_xl, pump_operating_points, sm_error, notSm>>

NextSummary ==
    \/ get_min_max_parameters
    \/ get_min_max_parameter
    \/ get_pump_operating_points
    \/ write_pump_operating_points

\* wave_summarize_results: the legacy summary, which has the operating points.
NextLegacySummary ==
    \/ get_min_max_parameter
    \/ get_pump_operating_points
    \/ write_pump_operating_points

\* The rows the extraction returned for a parameter.
RowsFor(parameter) ==
    {k \in 1..Len(summary_rows) : summary_rows[k].parameter = parameter}

\* The numbers of a column of the sheet.
NumbersOf(parameter) ==
    {sheet_df[k].cell[parameter].v :
        k \in {q \in 1..Len(sheet_df) : sheet_df[q].cell[parameter].kind = "num"}}

\* C8: once the extraction has run over the sheet of a case, every parameter whose
\* column holds at least one number has exactly two rows in the result: one tagged
\* Minimum with the smallest number of the column, one tagged Maximum with the largest.
C8_OneMinimumAndOneMaximumRow ==
    sm_pc # "loaded" =>
        \A k \in 1..Len(ParametersOf(sm_impl)) :
            LET parameter == ParametersOf(sm_impl)[k]
                numbers   == NumbersOf(parameter)
            IN  numbers # {} =>
                    /\ Cardinality(RowsFor(parameter)) = 2
                    /\ \E i, j \in RowsFor(parameter) :
                        /\ i # j
                        /\ summary_rows[i].MinMax = "Minimum"
                        /\ summary_rows[i].value.kind = "num"
                        /\ \A n \in numbers : summary_rows[i].value.v <= n
                        /\ summary_rows[j].MinMax = "Maximum"
                        /\ summary_rows[j].value.kind = "num"
                        /\ \A n \in numbers : summary_rows[j].value.v >= n

\* The columns asked for that hold a value which does not parse as a number.
UnparseableColumns ==
    {parameter \in Range(ParametersOf(sm_impl)) :
        \E k \in 1..Len(sheet_df) : sheet_df[k].cell[parameter].kind = "str"}

\* C24: a value that does not parse as a number is treated as missing: the extraction
\* of a sheet never raises, whatever the cells of its columns are, and every row it
\* selects as a minimum or a maximum holds a number.
C24_UnparseableValuesAreMissing ==
    (sm_pc # "loaded" /\ UnparseableColumns # {}) =>
        /\ summary_rows # <<>>
        /\ \A k \in 1..Len(summary_rows) : summary_rows[k].value.kind = "num"

\* The labels of a profile sheet.
LabelsOf(sht) ==
    {profile_xl[sht].rows[k].BranchEquipment : k \in 1..Len(profile_xl[sht].rows)}

\* The cases whose profile table has the columns but not both labels.
CasesLackingLabel ==
    {sht \in Range(profile_sheets) :
        /\ profile_xl[sht].columns
        /\ ~({suction_node, discharge_node} \subseteq LabelsOf(sht))}

MaxParameterValue == 2

\* The component types of the model and the components of each.
ComponentsOf == [Sink |-> {"K1", "K2"}, Source |-> {"R1"}]

ComponentTypes == DOMAIN ComponentsOf

ParameterNames == {"P", "Q"}

\* A value of the engine: None for a parameter that is not set, a number, or the
\* NaN a caller handed to set_values.
NoneValue == [kind |-> "None", v |-> 0]

NumberValue(n) == [kind |-> "num", v |-> n]

ModelValues == {NoneValue} \cup {NumberValue(n) : n \in 1..MaxParameterValue}

\* The cell the writer leaves for a value: nothing for None.
ToCell(value) == IF value.kind = "None" THEN [kind |-> "empty", v |-> 0] ELSE value

\* What pd.read_excel gives for a cell: NaN for an empty one.
FromCell(cell) == IF cell.kind = "empty" THEN NaN ELSE cell

\* ExcelHandler.write_excel(df, ...): the frame, cell by cell.
WriteExcel(df) == [name \in DOMAIN df |-> [q \in DOMAIN df[name] |-> ToCell(df[name][q])]]

\* pd.read_excel(sheet_name=None, index_col=0), one sheet.
ReadExcel(sheet) ==
    [name \in DOMAIN sheet |-> [q \in DOMAIN sheet[name] |-> FromCell(sheet[name][q])]]

\* dropna(how="all", axis=1): the columns that are not NaN in every row.
KeptColumns(df) ==
    {q \in ParameterNames : \E name \in DOMAIN df : df[name][q].kind # "nan"}

\* value.dropna(how="all", axis=1).to_dict(orient="index")
ToDictByIndex(df) ==
    [name \in DOMAIN df |-> [q \in KeptColumns(df) |-> df[name][q]]]

HasNaN(d) == \E name \in DOMAIN d : \E q \in DOMAIN d[name] : d[name][q].kind = "nan"

\* model.set_values(dict=d) on the components of one type: the engine stores what it
\* is given.
EngineSetValues(components, d) ==
    [name \in DOMAIN components |->
        [q \in DOMAIN components[name] |->
            IF name \in DOMAIN d /\ q \in DOMAIN d[name] THEN d[name][q]
            ELSE components[name][q]]]

\* The loop body of bulk_import_values for one sheet: an engine that rejects a NaN
\* raises, which is logged, and the sheet is left out.
ImportSheet(components, sheet, nan) ==
    LET d == ToDictByIndex(ReadExcel(sheet))
    IN  IF HasNaN(d) /\ nan = "rejects" THEN components
        ELSE EngineSetValues(components, d)

\* The models: every component has every parameter, set or not.
PopulaterModels ==
    [Sink : [ComponentsOf["Sink"] -> [ParameterNames -> ModelValues]],
     Source : [ComponentsOf["Source"] -> [ParameterNames -> ModelValues]]]

\* No model has been opened by a ModelPopulater.
IdlePopulater ==
    /\ pp_pc = "idle"
    /\ engine_nan = "None"
    /\ pp_model = <<>>
    /\ pp_before = <<>>
    /\ workbook = <<>>

\* ModelPopulater.__init__ in mode "export": any model, no workbook yet.
InitPopulater ==
    /\ pp_pc = "opened"
    /\ engine_nan \in {"stores", "rejects"}
    /\ pp_model \in PopulaterModels
    /\ pp_before = pp_model
    /\ workbook = <<>>

\* ModelPopulater.export_values
export_values ==
    /\ pp_pc = "opened"
    /\ workbook' = [key \in ComponentTypes |-> WriteExcel(pp_model[key])]
    /\ pp_pc' = "exported"
    /\ UNCHANGED <<engine_nan, pp_model, pp_before, notPp>>

\* ModelPopulater.bulk_import_values, of the exported workbook
bulk_import_values ==
    /\ pp_pc = "exported"
    /\ pp_model' = [key \in ComponentTypes |->
                        ImportSheet(pp_model[key], workbook[key], engine_nan)]
    /\ pp_pc' = "imported"
    /\ UNCHANGED <<engine_nan, pp_before, workbook, notPp>>

NextPopulater ==
    \/ export_values
    \/ bulk_import_values

\* C10: after export_values and bulk_import_values of the exported workbook, every
\* parameter of every component has the value it had before the export.
C10_ExportImportRoundTrip ==
    pp_pc = "imported" => pp_model = pp_before

(***************************************************************************)
(* Running a model: NetworkSimulator (src/app/core/network_simulation.py)  *)
(* and the legacy NetworkSimulation (src/core/network_simulation.py)       *)
(***************************************************************************)
MaxFailStep == 19

\* The model file the run is given.
ModelPath == "A_X_m.pips"

\* No exception.
NoException == [cls |-> "None", message |-> "None", model_path |-> "None"]

\* An exception of the engine or of a result step.
StepError == [cls |-> "Exception", message |-> "step failed", model_path |-> "None"]

\* The error run_simulation raises when validate() returns issues: the app class
\* carries the model path, the legacy class is a bare Exception with a message.
ValidationError(impl) ==
    IF impl = "app"
    THEN [cls |-> "app.NetworkSimulationError",
          message |-> "Model validation unsuccessful.", model_path |-> ModelPath]
    ELSE IF impl = "legacy"
         THEN [cls |-> "core.NetworkSimulationError",
               message |-> "Model Validation Unsuccessful", model_path |-> "None"]
         ELSE [cls |-> "Exception",
               message |-> "Model Validation Unsuccessful", model_path |-> "None"]

\* str(e): the parts of the text, in order.
Str(e) ==
    IF e.cls = "app.NetworkSimulationError"
    THEN <<"Simulation Error: ", e.message, " (Model: ", e.model_path, ")">>
    ELSE <<e.message>>

\* NetworkSimulator.run_existing_model, between __init__ and the finally block: each
\* engine call or result step with the method that makes it.
AppRunPlan ==
    <<<<"get_conditions", "get_boundary_conditions">>,
      <<"get_values", "deactivate_lowflow_sinks">>,
      <<"set_values", "deactivate_lowflow_sinks">>,
      <<"save", "deactivate_lowflow_sinks">>,
      <<"validate", "run_simulation">>,
      <<"reset_conditions", "run_simulation">>,
      <<"run", "run_simulation">>,
      <<"process_node_results", "process_node_results">>,
      <<"process_profile_results", "process_profile_results">>,
      <<"write_results_to_excel", "write_results_to_excel">>,
      <<"save", "run_existing_model">>>>

\* NetworkSimulation.create_model of src/core.
LegacyCreatePlan ==
    <<<<"open", "open_model">>,
      <<"setattr", "set_global_conditions">>,
      <<"set_values", "set_global_conditions">>,
      <<"get_conditions", "get_boundary_conditions">>,
      <<"get_values", "get_all_values">>,
      <<"set_values", "activate_all_wells">>,
      <<"reset_conditions", "activate_all_wells">>,
      <<"get_conditions", "activate_all_wells">>,
      <<"set_values", "deactivate_noflow_wells">>,
      <<"reset_conditions", "deactivate_noflow_wells">>,
      <<"set_conditions", "populate_flowrates_in_model_from_excel">>,
      <<"get_conditions", "populate_flowrates_in_model_from_excel">>,
      <<"save", "save_as_new_model">>,
      <<"close", "close_model">>>>

\* NetworkSimulation.run_existing_model of src/core.
LegacyRunPlan ==
    <<<<"open", "open_model">>,
      <<"setattr", "set_global_conditions">>,
      <<"set_values", "set_global_conditions">>,
      <<"get_conditions", "get_boundary_conditions">>,
      <<"validate", "run_simulation">>,
      <<"run", "run_simulation">>,
      <<"process_node_results", "process_node_results">>,
      <<"process_profile_results", "process_profile_results">>,
      <<"convert_units", "convert_units">>,
      <<"write_results_to_excel", "write_results_to_excel">>,
      <<"save", "save_as_new_model">>,
      <<"close", "close_model">>>>

\* NetworkSimulation.run_app of src/network_simulation.py.
RunAppPlan ==
    <<<<"open", "prepare_model">>,
      <<"setattr", "set_global_conditions">>,
      <<"set_values", "set_global_conditions">>,
      <<"get_conditions", "get_boundary_conditions">>,
      <<"get_values", "get_well_values">>,
      <<"set_values", "activate_all_wells">>,
      <<"reset_conditions", "activate_all_wells">>,
      <<"get_conditions", "activate_all_wells">>,
      <<"set_values", "deactivate_noflow_wells">>,
      <<"reset_conditions", "deactivate_noflow_wells">>,
      <<"set_conditions", "populate_flowrates_in_model_from_excel">>,
      <<"get_conditions", "populate_flowrates_in_model_from_excel">>,
      <<"save", "populate_flowrates_in_model_from_excel">>,
      <<"validate", "run_simulation">>,
      <<"run", "run_simulation">>,
      <<"process_results", "process_results">>,
      <<"convert_units", "convert_units">>,
      <<"write_results_to_excel", "write_results_to_excel">>,
      <<"save", "saveAs_newModel">>,
      <<"close", "close_model">>>>

\* The steps of a plan run one after the other until one raises: step number
\* rn_fail raises (close_model is taken not to), and run_simulation raises after a
\* validate() that returned issues.
RECURSIVE RunSteps(_, _, _)
RunSteps(plan, made, impl) ==
    IF plan = <<>>
    THEN [calls |-> made, error |-> NoException]
    ELSE LET step == Head(plan)[1]
             calls == Append(made, [op |-> step, by |-> Head(plan)[2]])
         IN  IF Len(calls) = rn_fail /\ step # "close"
             THEN [calls |-> calls, error |-> StepError]
             ELSE IF step = "validate" /\ rn_issues # <<>>
                  THEN [calls |-> calls, error |-> ValidationError(impl)]
                  ELSE RunSteps(Tail(plan), calls, impl)

\* What the except block of the legacy handlers does after logging: self.model.close(),
\* which has a session to close unless Model.open itself raised.
LegacyExcept(r) ==
    IF r.error = NoException \/ Len(r.calls) = 1
    THEN r.calls
    ELSE Append(r.calls, [op |-> "close", by |-> "except"])

\* MIN_FLOWRATE = 0.01 of NetworkSimulator, in units of 0.005.
MIN_FLOWRATE == 2

MaxSinkFlow == 3

RunSinks == {"K1", "K2"}

\* The loop of deactivate_lowflow_sinks: a sink whose driving flow is falsy (zero) is
\* skipped; a sink whose flow is below MIN_FLOWRATE gets IsActive = False.
LowFlowDeactivated(sinks) ==
    [s \in DOMAIN sinks |->
        IF sinks[s].flow = 0 THEN sinks[s]
        ELSE IF sinks[s].flow < MIN_FLOWRATE THEN [sinks[s] EXCEPT !.IsActive = FALSE]
        ELSE sinks[s]]

\* Whether the call `op` of method `by` was made and returned.
Returned(calls, op, by) ==
    \E i \in 1..Len(calls) : calls[i].op = op /\ calls[i].by = by /\ rn_fail # i

IdleRun ==
    /\ rn_pc = "idle"
    /\ rn_impl = "None"
    /\ rn_issues = <<>>
    /\ rn_fail = 0
    /\ rn_calls = <<>>
    /\ rn_sinks = <<>>
    /\ rn_open = FALSE
    /\ rn_error = NoException
    /\ rn_raised = FALSE
    /\ rn_logged = <<>>

\* Before a run: the model file validates or not, and any one step may raise.
InitRun ==
    /\ rn_pc = "idle"
    /\ rn_impl = "None"
    /\ rn_issues \in {<<>>, <<"issue">>}
    /\ rn_fail \in 0..MaxFailStep
    /\ rn_calls = <<>>
    /\ rn_sinks \in [RunSinks -> [flow : 0..MaxSinkFlow, IsActive : BOOLEAN]]
    /\ rn_open = FALSE
    /\ rn_error = NoException
    /\ rn_raised = FALSE
    /\ rn_logged = <<>>

\* NetworkSimulator.__init__: Model.open(model_path, units=unit)
NetworkSimulator_init ==
    /\ rn_pc = "idle"
    /\ rn_impl' = "app"
    /\ rn_calls' = <<[op |-> "open", by |-> "__init__"]>>
    /\ IF rn_fail = 1
       THEN /\ rn_pc' = "done"
            /\ rn_open' = FALSE
            /\ rn_error' = StepError
            /\ rn_raised' = TRUE
       ELSE /\ rn_pc' = "constructed"
            /\ rn_open' = TRUE
            /\ rn_error' = NoException
            /\ rn_raised' = FALSE
    /\ UNCHANGED <<rn_issues, rn_fail, rn_sinks, rn_logged, notRn>>

\* NetworkSimulator.run_existing_model: both except branches log and swallow the
\* error, the finally block closes the session.
NetworkSimulator_run_existing_model ==
    /\ rn_pc = "constructed"
    /\ LET r == RunSteps(AppRunPlan, rn_calls, "app")
       IN  /\ rn_calls' = Append(r.calls, [op |-> "close", by |-> "finally"])
           /\ rn_sinks' = IF Returned(r.calls, "set_values", "deactivate_lowflow_sinks")
                          THEN LowFlowDeactivated(rn_sinks)
                          ELSE rn_sinks
           /\ rn_error' = r.error
           /\ rn_logged' = IF r.error = NoException THEN <<>> ELSE Str(r.error)
    /\ rn_raised' = FALSE
    /\ rn_open' = FALSE
    /\ rn_pc' = "done"
    /\ UNCHANGED <<rn_impl, rn_issues, rn_fail, notRn>>

\* NetworkSimulation.create_model: except Exception logs, closes and re-raises.
NetworkSimulation_create_model ==
    /\ rn_pc = "idle"
    /\ rn_impl' = "legacy"
    /\ LET r == RunSteps(LegacyCreatePlan, <<>>, "legacy")
       IN  /\ rn_calls' = LegacyExcept(r)
           /\ rn_error' = r.error
           /\ rn_logged' = IF r.error = NoException THEN <<>> ELSE Str(r.error)
           /\ rn_raised' = (r.error # NoException)
    /\ rn_open' = FALSE
    /\ rn_pc' = "done"
    /\ UNCHANGED <<rn_issues, rn_fail, rn_sinks, notRn>>

\* NetworkSimulation.run_existing_model: except Exception logs, closes and re-raises.
NetworkSimulation_run_existing_model ==
    /\ rn_pc = "idle"
    /\ rn_impl' = "legacy"
    /\ LET r == RunSteps(LegacyRunPlan, <<>>, "legacy")
       IN  /\ rn_calls' = LegacyExcept(r)
           /\ rn_error' = r.error
           /\ rn_logged' = IF r.error = NoException THEN <<>> ELSE Str(r.error)
           /\ rn_raised' = (r.error # NoException)
    /\ rn_open' = FALSE
    /\ rn_pc' = "done"
    /\ UNCHANGED <<rn_issues, rn_fail, rn_sinks, notRn>>

\* NetworkSimulation.run_app of src/network_simulation.py: except Exception logs,
\* closes and re-raises.
NetworkSimulation_run_app ==
    /\ rn_pc = "idle"
    /\ rn_impl' = "script"
    /\ LET r == RunSteps(RunAppPlan, <<>>, "script")
       IN  /\ rn_calls' = LegacyExcept(r)
           /\ rn_error' = r.error
           /\ rn_logged' = IF r.error = NoException THEN <<>> ELSE Str(r.error)
           /\ rn_raised' = (r.error # NoException)
    /\ rn_open' = FALSE
    /\ rn_pc' = "done"
    /\ UNCHANGED <<rn_issues, rn_fail, rn_sinks, notRn>>

NextRun ==
    \/ NetworkSimulator_init
    \/ NetworkSimulator_run_existing_model
    \/ NetworkSimulation_create_model
    \/ NetworkSimulation_run_existing_model
    \/ NetworkSimulation_run_app

\* The ops of the calls made.
Ops(log) == {log[i].op : i \in 1..Len(log)}

\* validate() was called, did not itself raise, and returned issues.
ValidateReturnedIssues ==
    /\ rn_issues # <<>>
    /\ \E i \in 1..Len(rn_calls) : rn_calls[i].op = "validate" /\ rn_fail # i

\* C12: after a validate() that returned a non-empty list, the engine run is not
\* invoked, nothing is reshaped or written, and the error run_simulation raises
\* names the model path.
C12_InvalidModelIsNotRun ==
    (rn_pc = "done" /\ ValidateReturnedIssues) =>
        /\ Ops(rn_calls) \cap {"run", "process_node_results", "process_profile_results",
                               "convert_units", "write_results_to_excel"} = {}
        /\ \E i \in 1..Len(Str(rn_error)) : Str(rn_error)[i] = ModelPath

\* The step of the per-case state machine a call belongs to, by the method that
\* makes it: 1 Opened, 2 BoundaryConditionsFetched, 3 GlobalConditionsApplied,
\* 4 CaseParametersApplied, 5 FlowMasksApplied, 6 Validated, 7 Run, 8 ResultsReshaped,
\* 9 Written, 10 SavedAs, 11 Closed; 0 for a call that is none of them.
StepOf(call) ==
    CASE call.op = "open" -> 1
      [] call.by = "get_boundary_conditions" -> 2
      [] call.by = "set_global_conditions" -> 3
      [] call.by = "populate_flowrates_in_model_from_excel" /\ call.op # "save" -> 4
      [] call.by \in {"activate_all_wells", "deactivate_noflow_wells"} -> 5
      [] call.op = "validate" -> 6
      [] call.op = "run" -> 7
      [] call.op \in {"process_node_results", "process_profile_results",
                      "process_results", "convert_units"} -> 8
      [] call.op = "write_results_to_excel" -> 9
      [] call.op = "save" -> 10
      [] call.op = "close" -> 11
      [] OTHER -> 0

\* C23: a case that run_existing_model (src/core) or run_app has run to the end went
\* through the eleven steps Opened .. Closed, each of them, in that order.
C23_StepsInStateMachineOrder ==
    (/\ rn_pc = "done" /\ rn_impl \in {"legacy", "script"}
     /\ rn_error = NoException /\ "run" \in Ops(rn_calls)) =>
        /\ \A i, j \in 1..Len(rn_calls) :
              (i < j /\ StepOf(rn_calls[i]) # 0 /\ StepOf(rn_calls[j]) # 0)
                  => StepOf(rn_calls[i]) <= StepOf(rn_calls[j])
        /\ \A step \in 1..11 : \E i \in 1..Len(rn_calls) : StepOf(rn_calls[i]) = step

\* C25: when NetworkSimulator.run_existing_model has asked the engine to validate,
\* every sink whose driving flow is at or below MIN_FLOWRATE, zero included, is
\* inactive.
C25_LowFlowSinksInactiveBeforeValidate ==
    (rn_pc = "done" /\ rn_impl = "app" /\ "validate" \in Ops(rn_calls)) =>
        \A s \in RunSinks : rn_sinks[s].flow <= MIN_FLOWRATE => ~rn_sinks[s].IsActive

\* Every settings or parameter change of the log is followed by a
\* reset_conditions before the next get_conditions.
ResetBeforeRead(log) ==
    \A i, j \in 1..Len(log) :
        (i < j /\ log[i].op \in {"setattr", "set_values"} /\ log[j].op = "get_conditions")
            => \E k \in (i + 1)..(j - 1) : log[k].op = "reset_conditions"

\* C19: in the calls a handler has made on the engine, each settings or parameter
\* change is followed by reset_conditions before the next get_conditions read.
C19_ResetBeforeNextConditionsRead ==
    ResetBeforeRead(rn_calls) /\ ResetBeforeRead(engine_log)

(***************************************************************************)
(* Worker threads of the frames: src/app/frames/multi_case.py,             *)
(* create_model.py and populate_model.py                                   *)
(***************************************************************************)
MaxThreads == 2

ModelFiles == {"a.pips", "b.pips"}

SheetNames == {"Select Sheet Name", "Sheet1"}

PopulateModes == {"bulk_import", "export", "simple_import"}

\* threading.Thread(target=...).start(): one more thread, not yet run.
StartThread(workflow, path) ==
    Append(threads, [workflow |-> workflow, path |-> path, pc |-> "started",
                     session |-> FALSE])

\* The threads other than i that hold an open session on the file.
OtherSessions(i, path) ==
    {j \in 1..Len(threads) : j # i /\ threads[j].session /\ threads[j].path = path}

IdleThreads ==
    /\ file_lock = "None"
    /\ threads = <<>>

\* No thread yet; the engine either opens a file a second time or raises.
InitThreads ==
    /\ file_lock \in {"opens", "raises"}
    /\ threads = <<>>

\* MultiCaseFrame.on_submit: starts the thread, whatever runs already.
on_submit ==
    /\ Len(threads) < MaxThreads
    /\ \E path \in ModelFiles : threads' = StartThread("multi_case", path)
    /\ UNCHANGED <<file_lock, notTh>>

\* submit_create_model: returns on the placeholder sheet name, else starts the thread.
submit_create_model ==
    /\ Len(threads) < MaxThreads
    /\ \E path \in ModelFiles, sheet_name \in SheetNames :
          threads' = IF sheet_name = "Select Sheet Name"
                     THEN threads
                     ELSE StartThread("create_model", path)
    /\ UNCHANGED <<file_lock, notTh>>

\* submit_populate_model: returns on the placeholder sheet name in the modes that
\* need a sheet, else starts the thread.
submit_populate_model ==
    /\ Len(threads) < MaxThreads
    /\ \E path \in ModelFiles, sheet_name \in SheetNames, mode \in PopulateModes :
          threads' = IF mode = "simple_import" /\ sheet_name = "Select Sheet Name"
                     THEN threads
                     ELSE StartThread("populate_model", path)
    /\ UNCHANGED <<file_lock, notTh>>

\* The thread's first statement. ModelBuilder and ModelPopulater call Model.open in
\* their constructor; MultiCaseModeller is constructed with the keyword
\* multi_case_sheet, which its __init__ does not have, so the TypeError is caught by
\* the frame before any session is opened.
task_open(i) ==
    /\ threads[i].pc = "started"
    /\ threads' =
          [threads EXCEPT ![i] =
              IF threads[i].workflow = "multi_case"
              THEN [@ EXCEPT !.pc = "finished"]
              ELSE IF file_lock = "raises" /\ OtherSessions(i, threads[i].path) # {}
                   THEN [@ EXCEPT !.pc = "died"]
                   ELSE [@ EXCEPT !.pc = "open", !.session = TRUE]]
    /\ UNCHANGED <<file_lock, notTh>>

\* The rest of the thread: the work ends with save() and close(), or an exception
\* ends the thread before them and the session stays open.
task_close(i) ==
    /\ threads[i].pc = "open"
    /\ \E ok \in BOOLEAN :
          threads' = [threads EXCEPT ![i] =
                         IF ok
                         THEN [@ EXCEPT !.pc = "finished", !.session = FALSE]
                         ELSE [@ EXCEPT !.pc = "died"]]
    /\ UNCHANGED <<file_lock, notTh>>

task ==
    \E i \in 1..Len(threads) : task_open(i) \/ task_close(i)

NextThreads ==
    \/ on_submit
    \/ submit_create_model
    \/ submit_populate_model
    \/ task

\* C16: no two running worker threads hold an open session on the same model file.
C16_OneSessionPerModelFile ==
    \A i, j \in 1..Len(threads) :
        (i # j /\ threads[i].pc = "open" /\ threads[j].pc = "open")
            => threads[i].path # threads[j].path

(***************************************************************************)
(* Constructing NetworkSimulationSummary                                   *)
(***************************************************************************)
\* The paths a caller may pass: the two result workbooks and a third file.
ResultPaths == {"Node_Results.xlsx", "Profile_Results.xlsx", "Other.xlsx"}

NoArgs == [node_result_xl |-> "None", profile_result_xl |-> "None"]

\* Path(p).is_file()
is_file(path) == path \in ct_files

\* The attributes that exist on an instance without being assigned by __init__: the
\* class defines methods only (get_node_summary, write_node_summary, ...).
ClassAttributes == {}

\* The statements of the app constructor after the two file checks: four assignments,
\* then the expression `self.node_summary`, which reads an attribute.
AppAssignments ==
    <<"node_result_xl", "profile_result_xl", "node_parameters", "profile_parameters">>

\* Reading self.<name>: AttributeError unless it was assigned or the class has it.
ReadAttribute(assigned, name) ==
    IF name \in Range(assigned) \cup ClassAttributes THEN "None" ELSE "AttributeError"

IdleConstructor ==
    /\ ct_pc = "idle"
    /\ ct_files = {}
    /\ ct_impl = "None"
    /\ ct_args = NoArgs
    /\ ct_self = <<>>
    /\ ct_error = "None"

\* Any set of the files may exist.
InitConstructor ==
    /\ ct_pc = "ready"
    /\ ct_files \in SUBSET ResultPaths
    /\ ct_impl = "None"
    /\ ct_args = NoArgs
    /\ ct_self = <<>>
    /\ ct_error = "None"

\* NetworkSimulationSummary.__init__ (app)
NetworkSimulationSummary_init_app ==
    /\ ct_pc = "ready"
    /\ \E node_result_xl, profile_result_xl \in ResultPaths :
        /\ ct_args' = [node_result_xl |-> node_result_xl,
                       profile_result_xl |-> profile_result_xl]
        /\ IF ~is_file(node_result_xl) \/ ~is_file(profile_result_xl)
           THEN /\ ct_error' = "FileNotFoundError"
                /\ ct_self' = <<>>
           ELSE /\ ct_self' = AppAssignments
                /\ ct_error' = ReadAttribute(AppAssignments, "node_summary")
    /\ ct_impl' = "app"
    /\ ct_pc' = "done"
    /\ UNCHANGED <<ct_files, notCt>>

\* NetworkSimulationSummary.__init__ (legacy)
NetworkSimulationSummary_init_legacy ==
    /\ ct_pc = "ready"
    /\ \E node_result_xl, profile_result_xl \in ResultPaths :
        /\ ct_args' = [node_result_xl |-> node_result_xl,
                       profile_result_xl |-> profile_result_xl]
        /\ IF ~is_file(node_result_xl) \/ ~is_file(profile_result_xl)
           THEN /\ ct_error' = "FileNotFoundError"
                /\ ct_self' = <<>>
           ELSE /\ ct_self' = <<"logger", "node_result_xl", "profile_result_xl">>
                /\ ct_error' = "None"
    /\ ct_impl' = "legacy"
    /\ ct_pc' = "done"
    /\ UNCHANGED <<ct_files, notCt>>

NextConstructor ==
    \/ NetworkSimulationSummary_init_app
    \/ NetworkSimulationSummary_init_legacy

BothExist == is_file(ct_args.node_result_xl) /\ is_file(ct_args.profile_result_xl)

\* C28: constructing the summary of src/app/core succeeds whenever both workbooks
\* exist, and fails only when one of the two is absent.
C28_ConstructionFailsOnlyOnAbsentFile ==
    (ct_pc = "done" /\ ct_impl = "app") => (ct_error = "None" <=> BothExist)

(***************************************************************************)
(* ModelPopulater: simple import                                           *)
(***************************************************************************)
\* Rows of the component sheet.
MaxImportRows == 2

\* Values of the Length column.
MaxLength == 2

ImportTypes == {"Flowline", "Sink"}

ImportNames == {"N1", "N2", "N3"}

\* The columns of the sheet.
ImportColumns == {"Name", "Component", "Length"}

\* The live models: any components of either type, every Length 0.
ImportModels ==
    {mdl \in [ImportTypes -> UNION {[names -> {0}] : names \in SUBSET ImportNames}] : TRUE}

\* The sheets _validate_and_load_component_data accepts: the Name column is unique
\* and every Component is a valid component type.
ImportSheets ==
    {rows \in SeqsUpTo([Name : ImportNames, Component : ImportTypes, Length : 1..MaxLength],
                       MaxImportRows) :
        \A i, j \in 1..Len(rows) : i # j => rows[i].Name # rows[j].Name}

\* self.component_data["Component"].dropna().unique(): in order of first appearance.
RECURSIVE UniqueComponents(_, _)
UniqueComponents(rows, seen) ==
    IF rows = <<>> THEN <<>>
    ELSE IF Head(rows).Component \in seen THEN UniqueComponents(Tail(rows), seen)
    ELSE <<Head(rows).Component>>
         \o UniqueComponents(Tail(rows), seen \cup {Head(rows).Component})

\* The rows kept for a component type: `Component == component` and
\* `Name.isin(component_names)`.
FilteredData(data, component, component_names) ==
    LET Keep(row) == row.Component = component /\ row.Name \in component_names
    IN  SelectSeq(data, Keep)

NamesOf(rows) == {rows[k].Name : k \in 1..Len(rows)}

LogEntry(level, component, names) ==
    [level |-> level, component |-> component, names |-> names]

\* ModelPopulater._get_new_parameters: the dictionary for set_values (<<>> for None
\* or an empty result), what it logged, and whether set_index("Name") raised KeyError.
get_new_parameters(data, mdl, component, name_listed) ==
    LET component_names == DOMAIN mdl[component]
        filtered == FilteredData(data, component, component_names)
        extra_names == NamesOf(filtered) \ component_names
        available_parameters ==
            IF component_names = {} THEN {}
            ELSE {"Length"} \cup (IF name_listed THEN {"Name"} ELSE {})
        required_parameters == available_parameters \cap ImportColumns
        extra_log == IF extra_names # {}
                     THEN <<LogEntry("error", component, extra_names)>> ELSE <<>>
    IN  IF filtered = <<>>
        THEN [dict |-> <<>>, raised |-> FALSE,
              log |-> <<LogEntry("warning", component, {})>>]
        ELSE IF required_parameters = {}
        THEN [dict |-> <<>>, raised |-> FALSE,
              log |-> extra_log \o <<LogEntry("warning", component, {})>>]
        ELSE IF "Name" \notin required_parameters
        THEN [dict |-> <<>>, raised |-> TRUE, log |-> extra_log]
        ELSE [dict |-> [n \in NamesOf(filtered) |->
                          LET row == CHOOSE r \in Range(filtered) : r.Name = n
                          IN  [q \in required_parameters \ {"Name"} |-> row[q]]],
              raised |-> FALSE, log |-> extra_log]

\* The loop of ModelPopulater.set_new_parameters over the component types of the sheet.
RECURSIVE SetNewParameters(_, _, _, _, _)
SetNewParameters(components, data, mdl, name_listed, st) ==
    IF components = <<>> THEN st
    ELSE LET component == Head(components)
             r == get_new_parameters(data, mdl, component, name_listed)
             after ==
                 IF r.raised
                 THEN [st EXCEPT !.log = @ \o r.log
                                            \o <<LogEntry("error", component, {})>>]
                 ELSE IF r.dict = <<>>
                 THEN [st EXCEPT !.log = @ \o r.log
                                            \o <<LogEntry("warning", component, {})>>]
                 ELSE [calls |-> Append(st.calls, [component |-> component,
                                                   dict |-> r.dict]),
                       log |-> st.log \o r.log \o <<LogEntry("info", component, {})>>]
         IN  SetNewParameters(Tail(components), data, mdl, name_listed, after)

\* model.set_values(dict=...): the Length of every named component is replaced.
RECURSIVE Applied(_, _)
Applied(mdl, calls) ==
    IF calls = <<>> THEN mdl
    ELSE LET call == Head(calls)
         IN  Applied([mdl EXCEPT ![call.component] =
                         [n \in DOMAIN @ |-> IF n \in DOMAIN call.dict
                                             THEN call.dict[n].Length ELSE @[n]]],
                     Tail(calls))

IdleSimpleImport ==
    /\ si_pc = "idle"
    /\ name_is_parameter = FALSE
    /\ si_model = <<>>
    /\ component_data = <<>>
    /\ si_calls = <<>>
    /\ si_log = <<>>

\* ModelPopulater.__init__ in mode "simple_import": any model; the sheet is not read yet.
InitSimpleImport ==
    /\ si_pc = "opened"
    /\ name_is_parameter \in BOOLEAN
    /\ si_model \in ImportModels
    /\ component_data = <<>>
    /\ si_calls = <<>>
    /\ si_log = <<>>

\* ModelPopulater.simple_import_data: load the sheet, set_new_parameters, save, close.
simple_import_data ==
    /\ si_pc = "opened"
    /\ \E sheet \in ImportSheets :
        LET st == SetNewParameters(UniqueComponents(sheet, {}), sheet, si_model,
                                   name_is_parameter, [calls |-> <<>>, log |-> <<>>])
        IN  /\ component_data' = sheet
            /\ si_calls' = st.calls
            /\ si_log' = st.log
            /\ si_model' = Applied(si_model, st.calls)
    /\ si_pc' = "imported"
    /\ UNCHANGED <<name_is_parameter, notSi>>

NextSimpleImport == simple_import_data

\* The rows of the sheet whose name the live model does not have for their type.
AbsentRows ==
    {k \in 1..Len(component_data) :
        component_data[k].Name \notin DOMAIN si_model[component_data[k].Component]}

InSetValues(k) ==
    \E c \in 1..Len(si_calls) :
        /\ si_calls[c].component = component_data[k].Component
        /\ component_data[k].Name \in DOMAIN si_calls[c].dict

\* C22: a name of the sheet that the live model does not have for its type is never
\* part of a set_values call, an error log entry is produced for it, and the
\* remaining names of the sheet are imported.
C22_AbsentNameIsLoggedAndSkipped ==
    si_pc = "imported" =>
        /\ \A k \in AbsentRows :
            /\ ~InSetValues(k)
            /\ \E e \in 1..Len(si_log) :
                /\ si_log[e].level = "error"
                /\ component_data[k].Name \in si_log[e].names
        /\ (AbsentRows # {} /\ name_is_parameter) =>
                \A k \in 1..Len(component_data) : k \notin AbsentRows => InSetValues(k)

(***************************************************************************)
(* NetworkSimulation (legacy): the file name of a variant and back         *)
(***************************************************************************)
\* Characters of a case or condition label.
MaxNameLen == 3

\* Names are sequences of characters; "_" is the separator of the file name.
NameChars == {"a", "b", "_"}

\* The column headers of the profile sheet and the index labels of the conditions sheet.
Labels == UNION {[1..n -> NameChars] : n \in 1..MaxNameLen}

\* self.model_filename of the template.
model_filename == <<"m", ".", "p", "i", "p", "s">>

NoPair == [case |-> <<>>, condition |-> <<>>]

\* f"{self.case}_{self.condition.index.to_list()[0]}_{self.model_filename}"
NewFileName(case, condition, filename) ==
    case \o <<"_">> \o condition \o <<"_">> \o filename

\* [^_]+ at the start of s: the longest run of characters other than "_".
RECURSIVE Token(_)
Token(s) ==
    IF s = <<>> \/ Head(s) = "_" THEN <<>> ELSE <<Head(s)>> \o Token(Tail(s))

\* s without its first n characters.
Drop(s, n) == SubSeq(s, n + 1, Len(s))

\* re.match(r"([^_]+)_([^_]+)_([^_]+)", s): the three groups, <<>> when there is no
\* match. A group cannot hold "_", so group k is the k-th run and each of the first
\* two must be followed by "_".
ReMatch(s) ==
    LET g1 == Token(s)
        r1 == Drop(s, Len(g1))
        g2 == Token(Drop(r1, 1))
        r2 == Drop(r1, 1 + Len(g2))
        g3 == Token(Drop(r2, 1))
    IN  IF g1 = <<>> \/ r1 = <<>> \/ g2 = <<>> \/ r2 = <<>> \/ g3 = <<>>
        THEN <<>>
        ELSE <<g1, g2, g3>>

\* NetworkSimulation._extract_case_and_condition
extract_case_and_condition(input_string) ==
    LET match == ReMatch(input_string)
    IN  IF match = <<>>
        THEN [raised |-> TRUE, pair |-> NoPair]
        ELSE [raised |-> FALSE,
              pair |-> [case |-> match[1] \o <<"_">> \o match[2], condition |-> match[3]]]

IdleFilenames ==
    /\ fn_pc = "idle"
    /\ fn_case = <<>>
    /\ fn_condition = <<>>
    /\ fn_saved = <<>>
    /\ fn_extracted = NoPair
    /\ fn_error = "None"

\* prepare_model(case, condition) with update False has returned: any case of the
\* profile sheet and any condition of the conditions sheet.
InitFilenames ==
    /\ fn_pc = "prepared"
    /\ fn_case \in Labels
    /\ fn_condition \in Labels
    /\ fn_saved = <<>>
    /\ fn_extracted = NoPair
    /\ fn_error = "None"

\* NetworkSimulation.save_as_new_model(update=False)
NetworkSimulation_save_as_new_model ==
    /\ fn_pc = "prepared"
    /\ fn_saved' = NewFileName(fn_case, fn_condition, model_filename)
    /\ fn_pc' = "saved"
    /\ UNCHANGED <<fn_case, fn_condition, fn_extracted, fn_error, notFn>>

\* NetworkSimulation.prepare_model() of an object made for the saved variant with
\* update_existing_model=True: the key comes from the file name, then the condition
\* and the case are looked up in the sheets (KeyError when a label is not there).
NetworkSimulation_prepare_model ==
    /\ fn_pc = "saved"
    /\ LET r == extract_case_and_condition(fn_saved)
       IN  /\ fn_extracted' = r.pair
           /\ fn_error' = IF r.raised THEN "NetworkSimulationError"
                          ELSE IF r.pair.condition \notin Labels \/ r.pair.case \notin Labels
                          THEN "KeyError"
                          ELSE "None"
    /\ fn_pc' = "reopened"
    /\ UNCHANGED <<fn_case, fn_condition, fn_saved, notFn>>

NextFilenames ==
    \/ NetworkSimulation_save_as_new_model
    \/ NetworkSimulation_prepare_model

\* C30: the case and the condition taken from the file name of a variant are the
\* case and the condition the variant was saved for.
C30_FileNameRoundTrip ==
    fn_pc = "reopened" =>
        /\ fn_error # "NetworkSimulationError"
        /\ fn_extracted.case = fn_case
        /\ fn_extracted.condition = fn_condition

(***************************************************************************)
(* NetworkSimulator.write_results_to_excel: the sheets of the results      *)
(* workbooks                                                               *)
(***************************************************************************)
\* Runs made into one results folder.
MaxRuns == 2

\* Characters a file name has after its head.
MaxTail == 2

\* A file name (without directory and suffix) is a head followed by a tail: the head
\* is one of two fixed blocks of characters, of which only the length matters.
HeadLen == [P |-> 30, S |-> 29]

Stems == [head : DOMAIN HeadLen, tail : SeqsUpTo({"x", "y"}, MaxTail)]

StemLen(stem) == HeadLen[stem.head] + Len(stem.tail)

\* stem[:n] for n not below the length of the head
Take(stem, n) ==
    IF StemLen(stem) <= n THEN stem
    ELSE [stem EXCEPT !.tail = SubSeq(@, 1, n - HeadLen[stem.head])]

\* An empty workbook: no sheet.
NoSheets == <<>>

\* ExcelHandler.write_excel(df, workbook, sheet_name, clear_sheet=True): the name is
\* cut to 30 characters when longer, the sheet is added when missing, cleared and
\* written.
write_excel(wb, df, sheet_name) ==
    LET name == IF StemLen(sheet_name) > 30 THEN Take(sheet_name, 30) ELSE sheet_name
    IN  [n \in DOMAIN wb \cup {name} |-> IF n = name THEN df ELSE wb[n]]

\* sheet_name = Path(self.model_path).stem[:31]
SheetNameOf(model_path) == Take(model_path, 31)

IdleWorkbooks ==
    /\ rw_pc = "idle"
    /\ rw_node = NoSheets
    /\ rw_profile = NoSheets
    /\ rw_runs = <<>>

\* A results folder without workbooks.
InitWorkbooks ==
    /\ rw_pc = "open"
    /\ rw_node = NoSheets
    /\ rw_profile = NoSheets
    /\ rw_runs = <<>>

\* NetworkSimulator.write_results_to_excel of a run of any model file of the folder;
\* without results it raises NetworkSimulationError and writes nothing.
write_results_to_excel ==
    /\ rw_pc = "open"
    /\ Len(rw_runs) < MaxRuns
    /\ \E model_path \in Stems, has_results \in BOOLEAN :
        /\ rw_runs' = Append(rw_runs, [model_path |-> model_path, written |-> has_results])
        /\ IF has_results
           THEN /\ rw_node' = write_excel(rw_node, model_path, SheetNameOf(model_path))
                /\ rw_profile' = write_excel(rw_profile, model_path,
                                             SheetNameOf(model_path))
           ELSE UNCHANGED <<rw_node, rw_profile>>
    /\ UNCHANGED <<rw_pc, notRw>>

NextWorkbooks == write_results_to_excel

\* The model files whose results were written.
WrittenModels == {rw_runs[k].model_path : k \in {i \in 1..Len(rw_runs) : rw_runs[i].written}}

HoldsResultsOf(wb, model_path) == \E n \in DOMAIN wb : wb[n] = model_path

\* C27: the results of every model file run into the folder are still in a sheet of
\* each results workbook: no sheet was cleared and overwritten by another model's
\* results.
C27_NoResultSheetOverwritten ==
    \A model_path \in WrittenModels :
        /\ HoldsResultsOf(rw_node, model_path)
        /\ HoldsResultsOf(rw_profile, model_path)

(***************************************************************************)
(* Specifications: one workflow runs at a time, the others stay idle       *)
(***************************************************************************)
BuilderInit == InitBuilder /\ IdleMultiCase /\ IdleResults /\ IdleSummary /\ IdlePopulater /\ IdleRun /\ IdleThreads /\ IdleConstructor /\ IdleSimpleImport /\ IdleFilenames /\ IdleWorkbooks

SpecBuilder == BuilderInit /\ [][NextBuilder]_vars

CasesInit == InitCases /\ IdleBuilder /\ IdleResults /\ IdleSummary /\ IdlePopulater /\ IdleRun /\ IdleThreads /\ IdleConstructor /\ IdleSimpleImport /\ IdleFilenames /\ IdleWorkbooks

SpecCases == CasesInit /\ [][NextMultiCase]_vars

SinksInit == InitSinks /\ IdleBuilder /\ IdleResults /\ IdleSummary /\ IdlePopulater /\ IdleRun /\ IdleThreads /\ IdleConstructor /\ IdleSimpleImport /\ IdleFilenames /\ IdleWorkbooks

SpecSinks == SinksInit /\ [][NextMultiCase]_vars

ParametersInit ==
    InitParameters /\ IdleBuilder /\ IdleResults /\ IdleSummary /\ IdlePopulater /\ IdleRun /\ IdleThreads /\ IdleConstructor /\ IdleSimpleImport /\ IdleFilenames /\ IdleWorkbooks

SpecParameters == ParametersInit /\ [][NextMultiCase]_vars

CaseOrderInit ==
    InitCaseOrder /\ IdleBuilder /\ IdleResults /\ IdleSummary /\ IdlePopulater /\ IdleRun /\ IdleThreads /\ IdleConstructor /\ IdleSimpleImport /\ IdleFilenames /\ IdleWorkbooks

SpecCaseOrder == CaseOrderInit /\ [][NextMultiCase]_vars

NodeResultsInit == InitNodeResults /\ IdleBuilder /\ IdleMultiCase /\ IdleSummary /\ IdlePopulater /\ IdleRun /\ IdleThreads /\ IdleConstructor /\ IdleSimpleImport /\ IdleFilenames /\ IdleWorkbooks

SpecNodeResults == NodeResultsInit /\ [][NextResults]_vars

ProfileResultsInit == InitProfileResults /\ IdleBuilder /\ IdleMultiCase /\ IdleSummary /\ IdlePopulater /\ IdleRun /\ IdleThreads /\ IdleConstructor /\ IdleSimpleImport /\ IdleFilenames /\ IdleWorkbooks

SpecProfileResults == ProfileResultsInit /\ [][NextResults]_vars

MinMaxInit == InitMinMax /\ IdleBuilder /\ IdleMultiCase /\ IdleResults /\ IdlePopulater /\ IdleRun /\ IdleThreads /\ IdleConstructor /\ IdleSimpleImport /\ IdleFilenames /\ IdleWorkbooks

SpecMinMax == MinMaxInit /\ [][NextSummary]_vars

PumpPointsInit == InitPumpPoints /\ IdleBuilder /\ IdleMultiCase /\ IdleResults /\ IdlePopulater /\ IdleRun /\ IdleThreads /\ IdleConstructor /\ IdleSimpleImport /\ IdleFilenames /\ IdleWorkbooks

SpecPumpPoints == PumpPointsInit /\ [][NextLegacySummary]_vars

PopulaterInit ==
    InitPopulater /\ IdleBuilder /\ IdleMultiCase /\ IdleResults /\ IdleSummary /\ IdleRun /\ IdleThreads /\ IdleConstructor /\ IdleSimpleImport /\ IdleFilenames /\ IdleWorkbooks

SpecPopulater == PopulaterInit /\ [][NextPopulater]_vars

RunInit ==
    InitRun /\ IdleBuilder /\ IdleMultiCase /\ IdleResults /\ IdleSummary /\ IdlePopulater /\ IdleThreads /\ IdleConstructor /\ IdleSimpleImport /\ IdleFilenames /\ IdleWorkbooks

SpecRun == RunInit /\ [][NextRun]_vars

ThreadsInit ==
    InitThreads /\ IdleBuilder /\ IdleMultiCase /\ IdleResults /\ IdleSummary /\ IdlePopulater /\ IdleRun /\ IdleConstructor /\ IdleSimpleImport /\ IdleFilenames /\ IdleWorkbooks

SpecThreads == ThreadsInit /\ [][NextThreads]_vars

ConstructorInit ==
    InitConstructor /\ IdleBuilder /\ IdleMultiCase /\ IdleResults /\ IdleSummary /\ IdlePopulater /\ IdleRun /\ IdleThreads /\ IdleSimpleImport /\ IdleFilenames /\ IdleWorkbooks

SpecConstructor == ConstructorInit /\ [][NextConstructor]_vars

SimpleImportInit ==
    InitSimpleImport /\ IdleBuilder /\ IdleMultiCase /\ IdleResults /\ IdleSummary /\ IdlePopulater /\ IdleRun /\ IdleThreads /\ IdleConstructor /\ IdleFilenames /\ IdleWorkbooks

SpecSimpleImport == SimpleImportInit /\ [][NextSimpleImport]_vars

FilenamesInit ==
    InitFilenames /\ IdleBuilder /\ IdleMultiCase /\ IdleResults /\ IdleSummary /\ IdlePopulater /\ IdleRun /\ IdleThreads /\ IdleConstructor /\ IdleSimpleImport /\ IdleWorkbooks

SpecFilenames == FilenamesInit /\ [][NextFilenames]_vars

WorkbooksInit ==
    InitWorkbooks /\ IdleBuilder /\ IdleMultiCase /\ IdleResults /\ IdleSummary /\ IdlePopulater /\ IdleRun /\ IdleThreads /\ IdleConstructor /\ IdleSimpleImport /\ IdleFilenames

SpecWorkbooks == WorkbooksInit /\ [][NextWorkbooks]_vars

====
